---- MODULE Spec2Model ----
(***************************************************************************)
(* Trust-boundary subsystem of powerbi-expert-app:                         *)
(*   - src/security/audit_logger.py  (AuditLogger: hash-chained segments)  *)
(*   - src/llm/data_boundary.py      (DataBoundary: schema sanitizer)      *)
(*   - src/llm/router.py             (LLMRouter over OllamaProvider)       *)
(*   - src/llm/ollama_provider.py, src/llm/azure_provider.py,              *)
(*     src/llm/azure_claude_provider.py  (the provider adapters)           *)
(* SpecAudit runs the audit logger, SpecVerify adds a verify_integrity     *)
(* caller, SpecTamper an outside writer, SpecWriteFail failing writes;     *)
(* SpecRouter runs the router, SpecRegistry the router over any registry   *)
(* of providers, SpecAdapter one provider adapter, SpecBoundary one        *)
(* DataBoundary called by two requests.                                    *)
(***************************************************************************)
EXTENDS Integers, Sequences, FiniteSets, TLC

VARIABLES
    \* ---- AuditLogger ----
    now,            \* clock, in ticks (datetime.utcnow(), st_mtime)
    files,          \* log directory: segment name -> [lines, mtime]
    current_file,   \* self._current_file
    previous_hash,  \* self._previous_hash
    event_count,    \* self._event_count
    lock,           \* self._lock: "free" or the thread holding it
    sign_entries,   \* self.sign_entries
    max_file_size,  \* self.max_file_size (in line units)
    max_files,      \* self.max_files
    pc,             \* position of each thread inside log()
    ev,             \* the AuditEvent each thread is building
    next_id,        \* uuid4 source for event_id
    vpc,            \* position of the verify_integrity caller
    vtarget,        \* target_file of the running verify_integrity
    returned,       \* history: events log() returned, with their segment
    rot_unlinked,   \* history: segments unlinked by the latest _rotate_logs
    tampered,       \* history: the line an outside writer altered, if any
    \* ---- DataBoundary ----
    strict_mode,         \* self.strict_mode
    allow_descriptions,  \* self.allow_descriptions
    allow_measures,      \* self.allow_measures
    violations,          \* self._violations
    \* ---- LLMRouter ----
    deployment_mode,     \* self.deployment_mode
    providers,           \* self._providers: provider type -> status
    primary_provider,    \* self._primary_provider ("none": None)
    request_log,         \* self._request_log
    req,                 \* the generate_dax / generate calls, by request id
    initialized,         \* history: how the last initialize_provider call
                         \* was refused, if it was
    provider_calls,      \* history: the calls of OllamaProvider.generate
    \* ---- one provider adapter, called directly ----
    kind,                \* the adapter's class
    config,              \* self.config (LLMConfig)
    status,              \* self._status
    client,              \* self._client is not None
    network,             \* history: initialize sent a request
    call,                \* the generate call, with its history
    last_health_check,   \* self._last_health_check (0: None; else the
                         \* number of the check that set it)
    checked,             \* history: the last health_check call
    \* ---- one DataBoundary, called directly ----
    allow_relationships, \* self.allow_relationships
    caller               \* the callers of validate_schema, with what each
                         \* was handed and what it read afterwards

auditVars == <<now, files, current_file, previous_hash, event_count, lock,
               sign_entries, max_file_size, max_files, pc, ev, next_id,
               vpc, vtarget, returned, rot_unlinked, tampered>>

routerVars == <<strict_mode, allow_descriptions, allow_measures, violations,
                deployment_mode, providers, primary_provider, request_log,
                req, initialized, provider_calls>>

adapterVars == <<kind, config, status, client, network, call,
                 last_health_check, checked>>

boundaryVars == <<allow_relationships, caller>>

vars == <<auditVars, routerVars, adapterVars, boundaryVars>>

(***************************************************************************)
(* Bounds                                                                  *)
(***************************************************************************)
MaxEvents == 2
MaxTime == 2
MaxSegLines == 4
MaxRetain == 2
MaxOldFiles == 1

Threads == {"t1", "t2"}

(***************************************************************************)
(* audit_logger.py: values                                                 *)
(***************************************************************************)
\* The inputs of log(): event_type and message; the other arguments keep
\* their defaults (severity INFO, ids None, details {}).
LogInputs ==
    { [event_type |-> "llm_request", message |-> "m1"],
      [event_type |-> "policy_violation", message |-> "m2"] }

\* Values of a message field.
Messages == {"m1", "m2"}

SigningKey == "key"

\* hashlib.sha256(content).hexdigest(), collision free: the digest stands
\* for the content it was computed from.  None is <<>>.
NoHash == <<>>
HashContent(content) == <<content>>

\* strftime("%Y%m%d_%H%M%S"): a segment name has one-second resolution,
\* two ticks of the clock.
SegmentName(t) == t \div 2

\* AuditEvent.to_dict(): the eleven keys of an event line.
ToDict(e) ==
    [ event_id |-> e.event_id,
      event_type |-> e.event_type,
      severity |-> e.severity,
      message |-> e.message,
      timestamp |-> e.timestamp,
      user_id |-> e.user_id,
      session_id |-> e.session_id,
      request_id |-> e.request_id,
      details |-> e.details,
      previous_hash |-> e.previous_hash,
      signature |-> e.signature ]

\* AuditEvent.to_json(): the JSON text of to_dict().  The text is stood for
\* by the dict it encodes, tagged as one JSON document.
ToJson(e) == [doc |-> "event", body |-> ToDict(e)]

\* json.dumps(header)
HeaderJson(t, signing) ==
    [doc |-> "header",
     body |-> [log_version |-> "1.0", created_at |-> t,
               server_version |-> "3.0.0", signing_enabled |-> signing]]

\* A line of a segment file: the JSON text it carries, and how much of it
\* is there: "all" of it with its newline, a "prefix" (a write in progress)
\* or a "garbled" text that is JSON no more.
Line(json) == [text |-> json, part |-> "all"]
PartLine(json) == [text |-> json, part |-> "prefix"]

\* line.strip(): the text without its newline.
Strip(line) == line.text

\* hmac.new(key, canonical, sha256).hexdigest() over the five signed keys.
\* A signature field is <<>> for None and <<digest>> otherwise.
NoSig == <<>>
Hmac(key, canonical) == <<[key |-> key, over |-> canonical]>>

SignEvent(e) ==
    Hmac(SigningKey,
         [event_id |-> e.event_id, event_type |-> e.event_type,
          timestamp |-> e.timestamp, message |-> e.message,
          previous_hash |-> e.previous_hash])

ComputeSignatureForVerification(data) ==
    Hmac(SigningKey,
         [event_id |-> data.event_id, event_type |-> data.event_type,
          timestamp |-> data.timestamp, message |-> data.message,
          previous_hash |-> data.previous_hash])


(***************************************************************************)
(* audit_logger.py: AuditLogger.__init__ and _initialize_log               *)
(***************************************************************************)
\* Segments left in the log directory by an earlier run of the logger with
\* the same key and settings: a header and three chained events each, built
\* as log() builds them, last written before this logger's clock started.
OldEvent(id, t, prev, signing) ==
    LET e == [ event_id |-> id, event_type |-> "llm_request",
               severity |-> "info", message |-> "m1", timestamp |-> t,
               user_id |-> "None", session_id |-> "None",
               request_id |-> "None", details |-> "{}",
               previous_hash |-> prev, signature |-> NoSig ]
    IN  [e EXCEPT !.signature = IF signing THEN SignEvent(e) ELSE NoSig]

OldSegment(k, signing) ==
    LET h  == HeaderJson(0 - k, signing)
        e1 == OldEvent(0 - (3 * k), 0 - k, HashContent(h), signing)
        e2 == OldEvent(1 - (3 * k), 0 - k, HashContent(ToJson(e1)), signing)
        e3 == OldEvent(2 - (3 * k), 0 - k, HashContent(ToJson(e2)), signing)
    IN  [lines |-> <<Line(h), Line(ToJson(e1)), Line(ToJson(e2)),
                    Line(ToJson(e3))>>,
         mtime |-> 0 - k]

OldFiles(n, signing) ==
    [f \in {0 - i : i \in 1..n} |-> OldSegment(0 - f, signing)]

\* _initialize_log on directory `dir` at time t: open(name, "w") creates the
\* segment or truncates the one of that name, and writes the header.
InitializeLogFiles(dir, t, signing) ==
    [f \in DOMAIN dir \cup {SegmentName(t)} |->
        IF f = SegmentName(t)
        THEN [lines |-> <<Line(HeaderJson(t, signing))>>, mtime |-> t]
        ELSE dir[f]]

InitializeLogHash(t, signing) == HashContent(HeaderJson(t, signing))

\* No event in the making.
NoEvent == [event |-> [event_id |-> 0], segment |-> 0]

(***************************************************************************)
(* audit_logger.py: AuditLogger.log, one action per step of its body       *)
(***************************************************************************)
\* The AuditEvent log() builds from its arguments: previous_hash is the
\* cursor, the signature is set when sign_entries.
NewEvent(in, id, t, prev, signing) ==
    LET e == [ event_id |-> id,
               event_type |-> in.event_type,
               severity |-> "info",
               message |-> in.message,
               timestamp |-> t,
               user_id |-> "None",
               session_id |-> "None",
               request_id |-> "None",
               details |-> "{}",
               previous_hash |-> prev,
               signature |-> NoSig ]
    IN  [e EXCEPT !.signature = IF signing THEN SignEvent(e) ELSE NoSig]

\* Faulty variant of LogBegin: the body is entered without taking the lock.
LogBeginNoLock(t, in) ==
    /\ pc[t] = "idle"
    /\ next_id <= MaxEvents
    /\ lock' = t
    /\ ev' = [ev EXCEPT ![t] =
                [event |-> NewEvent(in, next_id, now, previous_hash,
                                    sign_entries),
                 segment |-> current_file]]
    /\ next_id' = next_id + 1
    /\ rot_unlinked' = {}
    /\ pc' = [pc EXCEPT ![t] = "write"]
    /\ UNCHANGED <<now, files, current_file, previous_hash, event_count,
                   sign_entries, max_file_size, max_files,
                   vpc, vtarget, returned, tampered>>
    /\ UNCHANGED <<routerVars, adapterVars, boundaryVars>>

\* `with self._lock:` entered, the event created from the cursor and signed.
\* (segment, unlinked: history kept with the event, the file its line went
\* to and whether rotation unlinked that file.)
LogBegin(t, in) ==
    /\ pc[t] = "idle"
    /\ lock = "free"
    /\ next_id <= MaxEvents
    /\ lock' = t
    /\ ev' = [ev EXCEPT ![t] =
                [event |-> NewEvent(in, next_id, now, previous_hash,
                                    sign_entries),
                 segment |-> current_file]]
    /\ next_id' = next_id + 1
    /\ rot_unlinked' = {}
    /\ pc' = [pc EXCEPT ![t] = "write"]
    /\ UNCHANGED <<now, files, current_file, previous_hash, event_count,
                   sign_entries, max_file_size, max_files,
                   vpc, vtarget, returned, tampered>>
    /\ UNCHANGED <<routerVars, adapterVars, boundaryVars>>

\* What a write puts in the place of the last line of a file when that line
\* has no newline yet: the rest of the line this call began, or, after the
\* fragment a failed write left, a text that is JSON no more (a "glued"
\* line is such a text still without its newline).
Glue(last, line) ==
    IF last = PartLine(line.text) THEN line
    ELSE IF line.part = "all" THEN [text |-> line.text, part |-> "garbled"]
    ELSE [text |-> line.text, part |-> "glued"]

\* open(f, "a") and write: `line` is put at the end of f (made when it is
\* gone); the rest of a line follows the prefix this call wrote before.
AppendLine(dir, f, line, t) ==
    LET old == IF f \in DOMAIN dir THEN dir[f].lines ELSE <<>>
        open == Len(old) > 0 /\ old[Len(old)].part \in {"prefix", "glued"}
        new == IF open
               THEN Append(SubSeq(old, 1, Len(old) - 1),
                           Glue(old[Len(old)], line))
               ELSE Append(old, line)
    IN  [g \in DOMAIN dir \cup {f} |->
            IF g = f THEN [lines |-> new, mtime |-> t] ELSE dir[g]]

\* _write_event, first part of a write that reaches the file in two pieces
\* (a line longer than the io buffer).
LogWritePartial(t) ==
    /\ pc[t] = "write"
    /\ files' = AppendLine(files, current_file,
                           PartLine(ToJson(ev[t].event)), now)
    /\ pc' = [pc EXCEPT ![t] = "writing"]
    /\ UNCHANGED <<now, current_file, previous_hash, event_count, lock,
                   sign_entries, max_file_size, max_files, ev, next_id,
                   vpc, vtarget, returned, rot_unlinked, tampered>>
    /\ UNCHANGED <<routerVars, adapterVars, boundaryVars>>

\* _write_event: f.write(event.to_json() + "\n"), the line is in the file.
LogWriteEvent(t) ==
    /\ pc[t] \in {"write", "writing"}
    /\ files' = AppendLine(files, current_file, Line(ToJson(ev[t].event)), now)
    /\ ev' = [ev EXCEPT ![t].segment = current_file]
    /\ pc' = [pc EXCEPT ![t] = "update"]
    /\ UNCHANGED <<now, current_file, previous_hash, event_count, lock,
                   sign_entries, max_file_size, max_files, next_id,
                   vpc, vtarget, returned, rot_unlinked, tampered>>
    /\ UNCHANGED <<routerVars, adapterVars, boundaryVars>>

\* Faulty variant of LogWriteFails: the cursor was moved before the write.
LogWriteFailsCursorMoved(t) ==
    /\ pc[t] \in {"write", "writing"}
    /\ lock' = "free"
    /\ previous_hash' = HashContent(ToJson(ev[t].event))
    /\ event_count' = event_count + 1
    /\ ev' = [ev EXCEPT ![t] = NoEvent]
    /\ pc' = [pc EXCEPT ![t] = "idle"]
    /\ UNCHANGED <<now, files, current_file, sign_entries, max_file_size,
                   max_files, next_id, vpc, vtarget, returned, rot_unlinked,
                   tampered>>
    /\ UNCHANGED <<routerVars, adapterVars, boundaryVars>>

\* _write_event raises (open() fails, or the disk is full before or after
\* a first piece of the line reached the file): log() is left through
\* `with self._lock`, nothing after the write has run.
LogWriteFails(t) ==
    /\ pc[t] \in {"write", "writing"}
    /\ lock' = "free"
    /\ ev' = [ev EXCEPT ![t] = NoEvent]
    /\ pc' = [pc EXCEPT ![t] = "idle"]
    /\ UNCHANGED <<now, files, current_file, previous_hash, event_count,
                   sign_entries, max_file_size, max_files, next_id,
                   vpc, vtarget, returned, rot_unlinked, tampered>>
    /\ UNCHANGED <<routerVars, adapterVars, boundaryVars>>

\* Faulty variant of LogUpdateChain: the cursor is left where it was.
LogUpdateChainStale(t) ==
    /\ pc[t] = "update"
    /\ event_count' = event_count + 1
    /\ pc' = [pc EXCEPT ![t] = "rotate"]
    /\ UNCHANGED <<now, files, current_file, previous_hash, lock,
                   sign_entries, max_file_size, max_files, ev, next_id,
                   vpc, vtarget, returned, rot_unlinked, tampered>>
    /\ UNCHANGED <<routerVars, adapterVars, boundaryVars>>

\* self._previous_hash = self._hash_content(event.to_json())
\* self._event_count += 1
LogUpdateChain(t) ==
    /\ pc[t] = "update"
    /\ previous_hash' = HashContent(ToJson(ev[t].event))
    /\ event_count' = event_count + 1
    /\ pc' = [pc EXCEPT ![t] = "rotate"]
    /\ UNCHANGED <<now, files, current_file, lock,
                   sign_entries, max_file_size, max_files, ev, next_id,
                   vpc, vtarget, returned, rot_unlinked, tampered>>
    /\ UNCHANGED <<routerVars, adapterVars, boundaryVars>>

\* st_size of a segment, one unit a line.
StSize(dir, f) == Len(dir[f].lines)

\* Faulty variant of RotateVictims: the loop runs while len > max_files.
RotateVictimsOffByOne(dir, V) ==
    LET n == Cardinality(DOMAIN dir)
        k == IF n > max_files THEN n - max_files ELSE 0
    IN  /\ V \subseteq DOMAIN dir
        /\ Cardinality(V) = k
        /\ \A v \in V : \A u \in DOMAIN dir \ V : dir[v].mtime <= dir[u].mtime

\* _rotate_logs: sorted by st_mtime, newest first (equal times in the order
\* glob gave them); pop and unlink the last one while len >= max_files.
\* V can be the set unlinked: as many as the loop pops, none newer than a
\* file that stays.
RotateVictims(dir, V) ==
    LET n == Cardinality(DOMAIN dir)
        k == IF n >= max_files THEN n - max_files + 1 ELSE 0
    IN  /\ V \subseteq DOMAIN dir
        /\ Cardinality(V) = k
        /\ \A v \in V : \A u \in DOMAIN dir \ V : dir[v].mtime <= dir[u].mtime

\* _check_rotation: nothing to do.
NoRotation ==
    \/ current_file \notin DOMAIN files
    \/ StSize(files, current_file) < max_file_size

\* What leaving log() does: the lock is released and the event returned.
LogLeave(t, gone) ==
    /\ lock' = "free"
    /\ returned' = {r \in returned : r.file \notin gone} \cup
                     IF ev[t].segment \in gone THEN {}
                     ELSE {[file |-> ev[t].segment,
                            text |-> ToJson(ev[t].event)]}
    /\ ev' = [ev EXCEPT ![t] = NoEvent]
    /\ pc' = [pc EXCEPT ![t] = "idle"]

\* _check_rotation finds the segment below the threshold; return event.
LogCheckRotation(t) ==
    /\ pc[t] = "rotate"
    /\ NoRotation
    /\ LogLeave(t, {})
    /\ UNCHANGED <<now, files, current_file, previous_hash, event_count,
                   sign_entries, max_file_size, max_files, next_id,
                   vpc, vtarget, rot_unlinked, tampered>>
    /\ UNCHANGED <<routerVars, adapterVars, boundaryVars>>

\* Faulty variant of LogRotate: the new segment is opened and the cursor
\* still holds the hash of the last event of the old one.
LogRotateKeepCursor(t) ==
    /\ pc[t] = "rotate"
    /\ ~NoRotation
    /\ \E V \in SUBSET DOMAIN files :
          /\ RotateVictims(files, V)
          /\ files' = InitializeLogFiles(
                          [f \in DOMAIN files \ V |-> files[f]],
                          now, sign_entries)
          /\ rot_unlinked' = V
          /\ LogLeave(t, V)
    /\ current_file' = SegmentName(now)
    /\ UNCHANGED <<now, event_count, previous_hash,
                   sign_entries, max_file_size, max_files, next_id,
                   vpc, vtarget, tampered>>
    /\ UNCHANGED <<routerVars, adapterVars, boundaryVars>>

\* _check_rotation -> _rotate_logs -> _initialize_log; return event.
LogRotate(t) ==
    /\ pc[t] = "rotate"
    /\ ~NoRotation
    /\ \E V \in SUBSET DOMAIN files :
          /\ RotateVictims(files, V)
          /\ files' = InitializeLogFiles(
                          [f \in DOMAIN files \ V |-> files[f]],
                          now, sign_entries)
          /\ rot_unlinked' = V
          /\ LogLeave(t, V)
    /\ current_file' = SegmentName(now)
    /\ previous_hash' = InitializeLogHash(now, sign_entries)
    /\ UNCHANGED <<now, event_count,
                   sign_entries, max_file_size, max_files, next_id,
                   vpc, vtarget, tampered>>
    /\ UNCHANGED <<routerVars, adapterVars, boundaryVars>>

\* The clock moves on.
Tick ==
    /\ now < MaxTime
    /\ now' = now + 1
    /\ UNCHANGED <<files, current_file, previous_hash, event_count, lock,
                   sign_entries, max_file_size, max_files, pc, ev, next_id,
                   vpc, vtarget, returned, rot_unlinked, tampered>>
    /\ UNCHANGED <<routerVars, adapterVars, boundaryVars>>

(***************************************************************************)
(* audit_logger.py: AuditLogger.verify_integrity                           *)
(***************************************************************************)
NewResults ==
    [valid |-> TRUE, events_checked |-> 0, signature_failures |-> <<>>,
     chain_failures |-> <<>>, error |-> "", error_line |-> 0 - 1]

NotFoundResults ==
    [valid |-> FALSE, events_checked |-> 0, signature_failures |-> <<>>,
     chain_failures |-> <<>>, error |-> "Log file not found",
     error_line |-> 0 - 1]

\* open() of a file unlinked after the exists() check raises.
RaisedResults ==
    [valid |-> FALSE, events_checked |-> 0, signature_failures |-> <<>>,
     chain_failures |-> <<>>, error |-> "FileNotFoundError raised",
     error_line |-> 0 - 1]

\* json.loads(line) succeeds.
Parses(line) == line.part = "all"

\* "log_version" in data
IsHeader(data) == data.doc = "header"

\* Faulty variant of CheckEvent: the signature is not looked at.
CheckEventSkipSignature(data, i, prev, res) ==
    LET chained == IF data.previous_hash # prev
                   THEN [res EXCEPT !.chain_failures = Append(@, i),
                                    !.valid = FALSE]
                   ELSE res
    IN  [chained EXCEPT !.events_checked = @ + 1]

\* The loop body of verify_integrity for an event line; i is enumerate's
\* index (the header is line 0).
CheckEvent(data, i, prev, res) ==
    LET chained == IF data.previous_hash # prev
                   THEN [res EXCEPT !.chain_failures = Append(@, i),
                                    !.valid = FALSE]
                   ELSE res
        signed == IF /\ sign_entries
                     /\ data.signature # NoSig
                     /\ data.signature # ComputeSignatureForVerification(data)
                  THEN [chained EXCEPT !.signature_failures = Append(@, i),
                                       !.valid = FALSE]
                  ELSE chained
    IN  [signed EXCEPT !.events_checked = @ + 1]

RECURSIVE Replay(_, _, _, _)
Replay(lines, n, prev, res) ==
    IF n > Len(lines) THEN res
    ELSE IF ~Parses(lines[n])
         THEN [res EXCEPT !.valid = FALSE, !.error = "Invalid JSON",
                          !.error_line = n - 1]
         ELSE IF IsHeader(lines[n].text)
              THEN Replay(lines, n + 1, HashContent(Strip(lines[n])), res)
              ELSE Replay(lines, n + 1, HashContent(Strip(lines[n])),
                          CheckEvent(lines[n].text.body, n - 1, prev, res))

VerifyIntegrity(lines) == Replay(lines, 1, NoHash, NewResults)

\* Names a caller can pass as log_file (the current one by default).
SegmentNames == (0 - MaxOldFiles)..SegmentName(MaxTime)

\* verify_integrity up to the exists() check; a missing file is answered at
\* once with NotFoundResults.
VerifyOpen(target) ==
    /\ vpc = "idle"
    /\ IF target \in DOMAIN files
       THEN vpc' = "replay" /\ vtarget' = target
       ELSE UNCHANGED <<vpc, vtarget>>
    /\ UNCHANGED <<now, files, current_file, previous_hash, event_count, lock,
                   sign_entries, max_file_size, max_files, pc, ev, next_id,
                   returned, rot_unlinked, tampered>>
    /\ UNCHANGED <<routerVars, adapterVars, boundaryVars>>

\* What the running verify_integrity returns when it opens and replays its
\* target now.  No lock is taken, and nothing is kept in the logger.
VerifyResults ==
    IF vtarget \in DOMAIN files
    THEN VerifyIntegrity(files[vtarget].lines)
    ELSE RaisedResults

\* verify_integrity: open the file, replay it, return VerifyResults.
VerifyReplay ==
    /\ vpc = "replay"
    /\ VerifyResults.events_checked >= 0
    /\ vpc' = "idle"
    /\ vtarget' = 0
    /\ UNCHANGED <<now, files, current_file, previous_hash, event_count, lock,
                   sign_entries, max_file_size, max_files, pc, ev, next_id,
                   returned, rot_unlinked, tampered>>
    /\ UNCHANGED <<routerVars, adapterVars, boundaryVars>>

(***************************************************************************)
(* The audit logger: threads calling log(), one caller of verify_integrity *)
(***************************************************************************)
(***************************************************************************)
(* An outside writer alters one byte of the message field of one event     *)
(* line, once.                                                             *)
(***************************************************************************)
\* The event lines of a segment, by place (the header is at 1).
EventPlaces(lines) ==
    {n \in 1..Len(lines) : Parses(lines[n]) /\ ~IsHeader(lines[n].text)}

\* The file with line n replaced at time t.
Rewrite(dir, f, n, line, t) ==
    [dir EXCEPT ![f] = [lines |-> [@.lines EXCEPT ![n] = line], mtime |-> t]]

\* The changed byte leaves a JSON line whose message reads m.
TamperMessage(f, n, m) ==
    /\ tampered = <<>>
    /\ f \in DOMAIN files
    /\ n \in EventPlaces(files[f].lines)
    /\ m # files[f].lines[n].text.body.message
    /\ LET line == [files[f].lines[n] EXCEPT !.text.body.message = m]
       IN  /\ files' = Rewrite(files, f, n, line, now)
           /\ tampered' = <<[file |-> f, place |-> n, line |-> line]>>
    /\ UNCHANGED <<now, current_file, previous_hash, event_count, lock,
                   sign_entries, max_file_size, max_files, pc, ev, next_id,
                   vpc, vtarget, returned, rot_unlinked>>
    /\ UNCHANGED <<routerVars, adapterVars, boundaryVars>>

\* The changed byte (a quote, a backslash) leaves a line json.loads rejects.
TamperBreak(f, n) ==
    /\ tampered = <<>>
    /\ f \in DOMAIN files
    /\ n \in EventPlaces(files[f].lines)
    /\ LET line == [files[f].lines[n] EXCEPT !.part = "garbled"]
       IN  /\ files' = Rewrite(files, f, n, line, now)
           /\ tampered' = <<[file |-> f, place |-> n, line |-> line]>>
    /\ UNCHANGED <<now, current_file, previous_hash, event_count, lock,
                   sign_entries, max_file_size, max_files, pc, ev, next_id,
                   vpc, vtarget, returned, rot_unlinked>>
    /\ UNCHANGED <<routerVars, adapterVars, boundaryVars>>

(***************************************************************************)
(* An outside writer removes one event line, or alters a field of one      *)
(* event line that the signature does not cover, once.                     *)
(***************************************************************************)
\* The keys of an event line that _sign_event leaves out of the canonical
\* string.
UnsignedFields ==
    {"details", "severity", "user_id", "session_id", "request_id",
     "signature"}

\* The event with one unsigned field changed; the signature is set to null.
Altered(body, field) ==
    CASE field = "details" -> [body EXCEPT !.details = "{\"k\": 1}"]
      [] field = "severity" -> [body EXCEPT !.severity = "critical"]
      [] field = "user_id" -> [body EXCEPT !.user_id = "u"]
      [] field = "session_id" -> [body EXCEPT !.session_id = "s"]
      [] field = "request_id" -> [body EXCEPT !.request_id = "r"]
      [] field = "signature" -> [body EXCEPT !.signature = NoSig]

\* The segment is written back without its event line at place n.
DeleteLine(f, n) ==
    /\ tampered = <<>>
    /\ f \in DOMAIN files
    /\ n \in EventPlaces(files[f].lines)
    /\ LET lines == SubSeq(files[f].lines, 1, n - 1)
                      \o SubSeq(files[f].lines, n + 1, Len(files[f].lines))
       IN  /\ files' = [files EXCEPT ![f] = [lines |-> lines, mtime |-> now]]
           /\ tampered' = <<[file |-> f, place |-> n, how |-> "deleted",
                             lines |-> lines]>>
    /\ UNCHANGED <<now, current_file, previous_hash, event_count, lock,
                   sign_entries, max_file_size, max_files, pc, ev, next_id,
                   vpc, vtarget, returned, rot_unlinked>>
    /\ UNCHANGED <<routerVars, adapterVars, boundaryVars>>

\* The event line at place n is written back with one unsigned field
\* changed, still a JSON line.
AlterField(f, n, field) ==
    /\ tampered = <<>>
    /\ f \in DOMAIN files
    /\ n \in EventPlaces(files[f].lines)
    /\ LET line == [files[f].lines[n] EXCEPT
                       !.text.body = Altered(@, field)]
       IN  /\ line # files[f].lines[n]
           /\ files' = Rewrite(files, f, n, line, now)
           /\ tampered' = <<[file |-> f, place |-> n, how |-> field,
                             lines |-> files'[f].lines]>>
    /\ UNCHANGED <<now, current_file, previous_hash, event_count, lock,
                   sign_entries, max_file_size, max_files, pc, ev, next_id,
                   vpc, vtarget, returned, rot_unlinked>>
    /\ UNCHANGED <<routerVars, adapterVars, boundaryVars>>

(***************************************************************************)
(* DataBoundary (src/llm/data_boundary.py)                                 *)
(*                                                                         *)
(* A string is kept as what the sanitizer looks at: its length, where a    *)
(* match of one of DATA_LEAK_PATTERNS ends (0: no match), and how many of  *)
(* its last characters are in the class [<>{}|\^`] that                    *)
(* _sanitize_identifier removes.  None and "" are the string of length 0.  *)
(***************************************************************************)
MAX_TABLE_DESCRIPTION_LENGTH == 500

MAX_COLUMN_DESCRIPTION_LENGTH == 200

MAX_MEASURE_EXPRESSION_LENGTH == 2000

MaxPromptLength == 50000

\* A string: its length, where a match of a DATA_LEAK_PATTERNS pattern
\* ends (0: none), the characters _sanitize_identifier removes at its end,
\* and where a fragment LLMRequest refuses ends (0: none).
Text(n, at, j) == [len |-> n, leak_at |-> at, junk |-> j, danger_at |-> 0]

\* A string of length n in which "DROP TABLE" ends at position at.
DangerText(n, at) == [Text(n, 0, 0) EXCEPT !.danger_at = at]

NoText == Text(0, 0, 0)

\* "[REDACTED]"
Redacted == Text(10, 0, 0)

\* Identifiers of the sample schemas: plain, a social security number
\* followed by "<", one longer than the prompt limit, and "DROP TABLE x".
Names ==
    {Text(5, 0, 0), Text(12, 11, 1), Text(60000, 0, 0), DangerText(12, 10)}

\* Descriptions: none, holding an e-mail address, and longer than any limit
\* with an address, or with "truncate", near its end.
Descriptions ==
    {NoText, Text(40, 20, 0), Text(600, 550, 0), DangerText(600, 580)}

\* Measure expressions: plain, with a currency value, and too long with a
\* currency value in the part that is cut off.
Expressions == {Text(30, 0, 0), Text(30, 12, 0), Text(2500, 2400, 0)}

PlainColumn ==
    [name |-> Text(5, 0, 0), table_name |-> Text(5, 0, 0),
     description |-> NoText]

PlainTable ==
    [name |-> Text(5, 0, 0), columns |-> <<PlainColumn>>,
     description |-> NoText, is_hidden |-> FALSE]

\* The plain table with its name or its description replaced, shown or
\* hidden.
Tables ==
    {[PlainTable EXCEPT !.name = n, !.columns[1].table_name = n,
                        !.is_hidden = h] :
        n \in Names, h \in BOOLEAN}
      \cup {[PlainTable EXCEPT !.description = d, !.is_hidden = h] :
              d \in Descriptions, h \in BOOLEAN}

PlainMeasure ==
    [name |-> Text(5, 0, 0), expression |-> Text(30, 0, 0),
     table_name |-> Text(5, 0, 0), description |-> NoText]

Measures ==
    {[PlainMeasure EXCEPT !.expression = e, !.description = d] :
        e \in Expressions, d \in {NoText, Text(40, 20, 0)}}

PlainSchema ==
    [tables |-> <<PlainTable>>, measures |-> <<>>, relationships |-> <<>>,
     model_description |-> NoText]

\* SchemaInfo values a caller of the router passes (without relationships):
\* the plain schema with its table, its measures or its description
\* replaced.
Schemas ==
    {[PlainSchema EXCEPT !.tables = <<t>>] : t \in Tables}
      \cup {[PlainSchema EXCEPT !.measures = <<m>>] : m \in Measures}
      \cup {[PlainSchema EXCEPT !.model_description = Text(40, 20, 0)],
            [PlainSchema EXCEPT !.tables = <<>>]}

RECURSIVE SumLen(_)
SumLen(seq) == IF seq = <<>> THEN 0 ELSE Head(seq) + SumLen(Tail(seq))

RECURSIVE Flatten(_)
Flatten(seqs) == IF seqs = <<>> THEN <<>> ELSE Head(seqs) \o Flatten(Tail(seqs))

\* re.search(pattern, text) for some pattern of DATA_LEAK_PATTERNS
Leaks(text) == text.leak_at > 0

\* text[:max_length] + "..."
Truncate(text, max_length) ==
    LET cut == text.len - max_length
    IN  [len |-> max_length + 3,
         leak_at |-> IF text.leak_at <= max_length THEN text.leak_at ELSE 0,
         junk |-> IF text.junk > cut THEN text.junk - cut ELSE 0,
         danger_at |->
            IF text.danger_at <= max_length THEN text.danger_at ELSE 0]

\* text[:n]
Prefix(text, n) ==
    IF text.len <= n THEN text
    ELSE [len |-> n,
          leak_at |-> IF text.leak_at <= n THEN text.leak_at ELSE 0,
          junk |-> IF text.junk > text.len - n
                   THEN text.junk - (text.len - n) ELSE 0,
          danger_at |-> IF text.danger_at <= n THEN text.danger_at ELSE 0]

\* An entry of self._violations: its fixed words and the text formatted
\* into it (a measure name, the first characters of a description).
Violation(text, of) == [text |-> text, of |-> of]

\* re.sub(r'[<>{}|\\^`]', '', name).strip()
SanitizeIdentifier(name) ==
    [len |-> name.len - name.junk, leak_at |-> name.leak_at, junk |-> 0,
     danger_at |-> name.danger_at]

\* _sanitize_text: the sanitized text and the violations it appends.
SanitizeText(text, max_length) ==
    IF text.len = 0 THEN [out |-> NoText, violations |-> <<>>]
    ELSE LET found == IF Leaks(text)
                      THEN <<Violation("Description contains potential data",
                                       Prefix(text, 50))>>
                      ELSE <<>>
         IN  IF Leaks(text) /\ strict_mode
             THEN [out |-> Redacted, violations |-> found]
             ELSE [out |-> IF text.len > max_length
                           THEN Truncate(text, max_length) ELSE text,
                   violations |-> found]

\* `... if self.allow_descriptions and x.description else None`
SanitizeDescription(text, max_length) ==
    IF allow_descriptions /\ text.len > 0
    THEN SanitizeText(text, max_length)
    ELSE [out |-> NoText, violations |-> <<>>]

\* The ColumnInfo _sanitize_table builds for a column of `table`.
SanitizeColumn(col, table) ==
    LET d == SanitizeDescription(col.description,
                                 MAX_COLUMN_DESCRIPTION_LENGTH)
    IN  [out |-> [name |-> SanitizeIdentifier(col.name),
                  table_name |-> table.name,
                  description |-> d.out],
         violations |-> d.violations]

\* _sanitize_table
SanitizeTable(table) ==
    LET cols == [i \in 1..Len(table.columns) |->
                    SanitizeColumn(table.columns[i], table)]
        d == SanitizeDescription(table.description,
                                 MAX_TABLE_DESCRIPTION_LENGTH)
    IN  [out |-> [name |-> SanitizeIdentifier(table.name),
                  columns |-> [i \in 1..Len(cols) |-> cols[i].out],
                  description |-> d.out,
                  is_hidden |-> table.is_hidden],
         violations |->
            Flatten([i \in 1..Len(cols) |-> cols[i].violations])
              \o d.violations]

\* Faulty variant of SanitizeMeasure: a measure with a match is reported
\* and kept.
SanitizeMeasureKeepsAll(measure) ==
    [kept |-> TRUE,
     out |-> [name |-> SanitizeIdentifier(measure.name),
              expression |-> measure.expression,
              table_name |-> measure.table_name,
              description |-> NoText],
     violations |->
        IF Leaks(measure.expression)
        THEN <<Violation("Measure contains potential data leak pattern",
                         measure.name)>>
        ELSE <<>>]

\* _sanitize_measure: `kept` is false where the code returns None.
SanitizeMeasure(measure) ==
    LET long == measure.expression.len > MAX_MEASURE_EXPRESSION_LENGTH
        expression == IF long
                      THEN Truncate(measure.expression,
                                    MAX_MEASURE_EXPRESSION_LENGTH)
                      ELSE measure.expression
        tooLong == IF long
                   THEN <<Violation("Measure expression too long, truncating",
                                    measure.name)>>
                   ELSE <<>>
        leak == IF Leaks(expression)
                THEN <<Violation("Measure contains potential data leak pattern",
                                 measure.name)>>
                ELSE <<>>
        d == SanitizeDescription(measure.description,
                                 MAX_COLUMN_DESCRIPTION_LENGTH)
    IN  IF Leaks(expression) /\ strict_mode
        THEN [kept |-> FALSE, out |-> measure,
              violations |-> tooLong \o leak]
        ELSE [kept |-> TRUE,
              out |-> [name |-> SanitizeIdentifier(measure.name),
                       expression |-> expression,
                       table_name |-> measure.table_name,
                       description |-> d.out],
              violations |-> tooLong \o leak \o d.violations]

\* Length of the lines to_prompt_string writes for one table and for one
\* measure (data_type is "string"; the sample names need no quoting).
TableLines(table) ==
    <<1 + table.name.len>>
      \o (IF table.description.len > 0
          THEN <<15 + table.description.len>> ELSE <<>>)
      \o <<10>>
      \o [i \in 1..Len(table.columns) |->
            15 + table.columns[i].name.len
               + (IF table.columns[i].description.len > 0
                  THEN 4 + table.columns[i].description.len ELSE 0)]

MeasureLines(measure) ==
    <<9 + measure.table_name.len + measure.name.len,
      16 + measure.expression.len>>
      \o (IF measure.description.len > 0
          THEN <<17 + measure.description.len>> ELSE <<>>)

\* The line of one relationship (cardinality is "many-to-one").
RelationshipLine(rel) ==
    26 + rel.from_table.len + rel.from_column.len + rel.to_table.len
       + rel.to_column.len + (IF rel.is_active THEN 0 ELSE 11)

\* Faulty variant of Visible: hidden tables are printed too.
VisibleAll(tables) == tables

\* `if table.is_hidden: continue`
Visible(tables) == SelectSeq(tables, LAMBDA t : ~t.is_hidden)

TableLeaks(table) ==
    \/ Leaks(table.name)
    \/ Leaks(table.description)
    \/ \E i \in 1..Len(table.columns) :
          Leaks(table.columns[i].name) \/ Leaks(table.columns[i].description)

MeasureLeaks(measure) ==
    \/ Leaks(measure.table_name) \/ Leaks(measure.name)
    \/ Leaks(measure.expression) \/ Leaks(measure.description)

RelationshipLeaks(rel) ==
    \/ Leaks(rel.from_table) \/ Leaks(rel.from_column)
    \/ Leaks(rel.to_table) \/ Leaks(rel.to_column)

\* `pattern in text.upper()` for some pattern of dangerous_patterns
HasDangerousPattern(text) == text.danger_at > 0

TableDanger(table) ==
    \/ HasDangerousPattern(table.name)
    \/ HasDangerousPattern(table.description)
    \/ \E i \in 1..Len(table.columns) :
          \/ HasDangerousPattern(table.columns[i].name)
          \/ HasDangerousPattern(table.columns[i].description)

MeasureDanger(measure) ==
    \/ HasDangerousPattern(measure.table_name)
    \/ HasDangerousPattern(measure.name)
    \/ HasDangerousPattern(measure.expression)
    \/ HasDangerousPattern(measure.description)

RelationshipDanger(rel) ==
    \/ HasDangerousPattern(rel.from_table)
    \/ HasDangerousPattern(rel.from_column)
    \/ HasDangerousPattern(rel.to_table)
    \/ HasDangerousPattern(rel.to_column)

\* What to_prompt_string prints of a column.
Printed(col) == [name |-> col.name, description |-> col.description]

PrintedTable(table) ==
    [name |-> table.name, description |-> table.description,
     columns |-> [i \in 1..Len(table.columns) |-> Printed(table.columns[i])]]

\* SchemaInfo.to_prompt_string: the text sent to the model, with its length
\* and whether a leak pattern matches in it, or a fragment LLMRequest
\* refuses occurs in it.
ToPromptString(schema) ==
    LET shown == Visible(schema.tables)
        lines == <<7>>
                   \o Flatten([i \in 1..Len(shown) |-> TableLines(shown[i])])
                   \o (IF schema.measures # <<>> THEN <<10>> ELSE <<>>)
                   \o Flatten([i \in 1..Len(schema.measures) |->
                                 MeasureLines(schema.measures[i])])
                   \o (IF schema.relationships # <<>> THEN <<15>> ELSE <<>>)
                   \o [i \in 1..Len(schema.relationships) |->
                         RelationshipLine(schema.relationships[i])]
    IN  [len |-> SumLen(lines) + Len(lines) - 1,
         leak |-> \/ \E i \in 1..Len(shown) : TableLeaks(shown[i])
                  \/ \E i \in 1..Len(schema.measures) :
                        MeasureLeaks(schema.measures[i])
                  \/ \E i \in 1..Len(schema.relationships) :
                        RelationshipLeaks(schema.relationships[i]),
         danger |-> \/ \E i \in 1..Len(shown) : TableDanger(shown[i])
                    \/ \E i \in 1..Len(schema.measures) :
                          MeasureDanger(schema.measures[i])
                    \/ \E i \in 1..Len(schema.relationships) :
                          RelationshipDanger(schema.relationships[i]),
         text |-> [tables |-> [i \in 1..Len(shown) |-> PrintedTable(shown[i])],
                   measures |-> schema.measures,
                   relationships |-> schema.relationships]]

\* The lines to_prompt_string writes, by kind and in its order: the
\* section headers, a block per table, an entry per measure and a line per
\* relationship.
Sections(schema) ==
    <<"TABLES:">>
      \o [i \in 1..Len(Visible(schema.tables)) |-> "table"]
      \o (IF schema.measures # <<>> THEN <<"MEASURES:">> ELSE <<>>)
      \o [i \in 1..Len(schema.measures) |-> "measure"]
      \o (IF schema.relationships # <<>> THEN <<"RELATIONSHIPS:">> ELSE <<>>)
      \o [i \in 1..Len(schema.relationships) |->
            IF schema.relationships[i].is_active
            THEN "from[col] -> to[col] (cardinality)"
            ELSE "from[col] -> to[col] (cardinality) (inactive)"]

\* SchemaInfo.get_hash
GetHash(schema) == HashContent(ToPromptString(schema).text)

\* Faulty variant of ValidateFinal: the length is looked at, the leak
\* patterns are not.
ValidateFinalSizeOnly(schema) ==
    IF ToPromptString(schema).len > MaxPromptLength
    THEN <<Violation("Schema too large", NoText)>> ELSE <<>>

\* _validate_final: the violations it appends.
ValidateFinal(schema) ==
    LET prompt_string == ToPromptString(schema)
    IN  (IF prompt_string.len > MaxPromptLength
         THEN <<Violation("Schema too large", NoText)>> ELSE <<>>)
          \o (IF prompt_string.leak
              THEN <<Violation("Final schema contains data pattern", NoText)>>
              ELSE <<>>)

\* Faulty variant of CopyRelationships: the toggle is not looked at.
RelationshipsAlwaysCopied(schema) == schema.relationships

\* `if self.allow_relationships: sanitized.relationships =
\* schema.relationships.copy()`, over the empty list of a new SchemaInfo
CopyRelationships(schema) ==
    IF allow_relationships THEN schema.relationships ELSE <<>>

\* validate_schema up to its last statement: the sanitized copy and the
\* list self._violations holds at that point.
Sanitize(schema) ==
    LET md == SanitizeText(schema.model_description,
                           MAX_TABLE_DESCRIPTION_LENGTH)
        ts == [i \in 1..Len(schema.tables) |-> SanitizeTable(schema.tables[i])]
        ms == IF allow_measures
              THEN [i \in 1..Len(schema.measures) |->
                      SanitizeMeasure(schema.measures[i])]
              ELSE <<>>
        kept == SelectSeq(ms, LAMBDA m : m.kept)
        sanitized == [tables |-> [i \in 1..Len(ts) |-> ts[i].out],
                      measures |-> [i \in 1..Len(kept) |-> kept[i].out],
                      relationships |-> CopyRelationships(schema),
                      model_description |-> md.out]
    IN  [sanitized |-> sanitized,
         violations |->
            md.violations
              \o Flatten([i \in 1..Len(ts) |-> ts[i].violations])
              \o Flatten([i \in 1..Len(ms) |-> ms[i].violations])
              \o ValidateFinal(sanitized)]

\* Faulty variant of ValidateSchema: the violations are collected and the
\* sanitized schema is returned all the same.
ValidateSchemaNeverRaises(schema) ==
    [sanitized |-> Sanitize(schema).sanitized,
     violations |-> Sanitize(schema).violations,
     raised |-> FALSE,
     message |-> <<>>]

\* Faulty variant of ValidateSchema: any violation ends the call, strict
\* mode or not.
ValidateSchemaAlwaysStrict(schema) ==
    [sanitized |-> Sanitize(schema).sanitized,
     violations |-> Sanitize(schema).violations,
     raised |-> Sanitize(schema).violations # <<>>,
     message |-> Sanitize(schema).violations]

\* The end of validate_schema, s being what it built: `raise
\* DataBoundaryViolation(...)` if there are violations and strict_mode is
\* set, else `return sanitized`.
RaiseIfStrict(s) ==
    [sanitized |-> s.sanitized,
     violations |-> s.violations,
     raised |-> s.violations # <<>> /\ strict_mode,
     message |-> IF s.violations # <<>> /\ strict_mode
                 THEN s.violations ELSE <<>>]

\* validate_schema: `raised` where it ends in DataBoundaryViolation, whose
\* message then holds the list self._violations.
ValidateSchema(schema) == RaiseIfStrict(Sanitize(schema))

\* create_audit_record
CreateAuditRecord(schema, found) ==
    [schema_hash |-> GetHash(schema),
     table_count |-> Len(schema.tables),
     column_count |->
        SumLen([i \in 1..Len(schema.tables) |-> Len(schema.tables[i].columns)]),
     measure_count |-> Len(schema.measures),
     relationship_count |-> Len(schema.relationships),
     tables |-> [i \in 1..Len(schema.tables) |-> schema.tables[i].name],
     data_included |-> FALSE,
     violations |-> found,
     boundary_settings |->
        [allow_descriptions |-> allow_descriptions,
         allow_measures |-> allow_measures,
         allow_relationships |-> allow_relationships,
         strict_mode |-> strict_mode]]

(***************************************************************************)
(* One DataBoundary, called directly by two requests                       *)
(***************************************************************************)
Callers == {"A", "B"}

NoCaller ==
    [pc |-> "new", schema |-> <<>>, sanitized |-> <<>>, raised |-> FALSE,
     found |-> <<>>, seen |-> <<>>]

\* DataBoundary() beside callers that do nothing.
BoundaryDefault ==
    /\ allow_relationships = TRUE
    /\ caller = [c \in Callers |-> NoCaller]

\* A relationship between two columns of the plain table.
PlainRelationship ==
    [from_table |-> Text(5, 0, 0), from_column |-> Text(5, 0, 0),
     to_table |-> Text(5, 0, 0), to_column |-> Text(5, 0, 0),
     is_active |-> TRUE]

\* Further SchemaInfo values handed to validate_schema: a clean expression
\* longer than the limit, three measures of which the second holds a
\* currency value, a table named "Sales<", two relationships beside a
\* measure with a currency value, and two relationships the first of which
\* names a table after an e-mail address; before them, a model
\* description in which nothing matches, and a schema of a shown and a
\* hidden table, a measure, an active and an inactive relationship.
BoundarySchemas ==
    Schemas
      \cup {[PlainSchema EXCEPT !.model_description = Text(40, 0, 0)],
            [PlainSchema EXCEPT
               !.tables = <<PlainTable,
                            [PlainTable EXCEPT !.name = Text(6, 0, 0),
                                               !.is_hidden = TRUE]>>,
               !.measures = <<PlainMeasure>>,
               !.relationships =
                  <<PlainRelationship,
                    [PlainRelationship EXCEPT !.is_active = FALSE]>>],
            [PlainSchema EXCEPT
               !.measures = <<[PlainMeasure EXCEPT
                                 !.expression = Text(2500, 0, 0)]>>],
            [PlainSchema EXCEPT
               !.measures = <<PlainMeasure,
                              [PlainMeasure EXCEPT
                                 !.name = Text(6, 0, 0),
                                 !.expression = Text(30, 12, 0)],
                              [PlainMeasure EXCEPT !.name = Text(7, 0, 0)]>>],
            [PlainSchema EXCEPT
               !.tables = <<[PlainTable EXCEPT
                               !.name = Text(6, 0, 1),
                               !.columns[1].table_name = Text(6, 0, 1)]>>],
            [PlainSchema EXCEPT
               !.measures = <<[PlainMeasure EXCEPT
                                 !.expression = Text(30, 12, 0)]>>,
               !.relationships =
                  <<PlainRelationship,
                    [PlainRelationship EXCEPT !.is_active = FALSE]>>],
            [PlainSchema EXCEPT
               !.relationships =
                  <<[PlainRelationship EXCEPT !.from_table = Text(40, 20, 0)],
                    PlainRelationship>>]}

\* The schemas a caller hands over: any of them for the first request, one
\* that passes or one with a leaking model description for the second.
Handed(c) ==
    IF c = "A" THEN BoundarySchemas
    ELSE {PlainSchema,
          [PlainSchema EXCEPT !.model_description = Text(40, 20, 0)]}

\* validate_schema(schema), called by request c: `found` keeps the list the
\* call collected, `sanitized` the copy it built, returned unless the call
\* raised DataBoundaryViolation.
CallValidateSchema(c, schema) ==
    /\ caller[c].pc = "new"
    /\ violations' = ValidateSchema(schema).violations
    /\ caller' = [caller EXCEPT
                    ![c].pc = "validated",
                    ![c].raised = ValidateSchema(schema).raised,
                    ![c].schema = schema,
                    ![c].sanitized = ValidateSchema(schema).sanitized,
                    ![c].found = ValidateSchema(schema).violations]
    /\ UNCHANGED <<strict_mode, allow_descriptions, allow_measures,
                   deployment_mode, providers, primary_provider, request_log,
                   req, initialized, provider_calls, allow_relationships>>
    /\ UNCHANGED <<auditVars, adapterVars>>

\* get_violations(), called by request c after its validate_schema
GetViolations(c) ==
    /\ caller[c].pc = "validated"
    /\ caller' = [caller EXCEPT ![c].pc = "read",
                                ![c].seen = <<violations>>]
    /\ UNCHANGED allow_relationships
    /\ UNCHANGED <<auditVars, routerVars, adapterVars>>

\* create_audit_record(sanitized), called by request c with the schema its
\* validate_schema returned
CallCreateAuditRecord(c) ==
    /\ caller[c].pc = "validated"
    /\ ~caller[c].raised
    /\ caller' = [caller EXCEPT
                    ![c].pc = "recorded",
                    ![c].seen =
                       <<CreateAuditRecord(caller[c].sanitized,
                                           violations).violations>>]
    /\ UNCHANGED allow_relationships
    /\ UNCHANGED <<auditVars, routerVars, adapterVars>>

BoundaryNext ==
    \/ \E c \in Callers : \E schema \in Handed(c) :
          CallValidateSchema(c, schema)
    \/ \E c \in Callers : GetViolations(c)
    \/ \E c \in Callers : CallCreateAuditRecord(c)

(***************************************************************************)
(* LLMRouter over OllamaProvider (src/llm/router.py,                       *)
(* src/llm/ollama_provider.py, src/llm/base_provider.py)                   *)
(***************************************************************************)
MaxRequests == 1

MaxRetries == 3

MaxChecks == 2

RequestIds == 1..MaxRequests

ProviderTypes == {"ollama", "azure_foundry"}

UserIntents == {"total sales by year", "DROP TABLE sales"}

NoRequest ==
    [pc |-> "new", kind |-> "none", audit_record |-> <<>>, found |-> FALSE,
     danger |-> FALSE, attempt |-> 0, result |-> ""]

\* No initialize_provider call was made yet, or the last one came to
\* provider.initialize().
NoCall ==
    [type |-> "none", result |-> "", message |-> "", recoverable |-> TRUE,
     created |-> FALSE, invoked |-> FALSE]

\* State of a router and its DataBoundary after construction.
RouterInit ==
    /\ deployment_mode = "airgap"
    /\ strict_mode \in BOOLEAN
    /\ allow_descriptions \in BOOLEAN
    /\ allow_measures \in BOOLEAN
    /\ violations = <<>>
    /\ providers = [p \in {} |-> "offline"]
    /\ primary_provider = "none"
    /\ request_log = <<>>
    /\ req = [r \in RequestIds |-> NoRequest]
    /\ initialized = NoCall
    /\ provider_calls = {}

\* LLMRouter() with the default DataBoundary(strict_mode=True).
RouterDefault ==
    /\ RouterInit
    /\ strict_mode
    /\ allow_descriptions
    /\ allow_measures

\* Faulty variant of GetProvider: the status is not looked at.
GetProviderAnyStatus ==
    IF primary_provider # "none" /\ primary_provider \in DOMAIN providers
    THEN primary_provider
    ELSE "none"

\* _get_provider
GetProvider ==
    IF /\ primary_provider # "none"
       /\ primary_provider \in DOMAIN providers
       /\ providers[primary_provider] = "ready"
    THEN primary_provider
    ELSE "none"

\* `pattern in user_intent.upper()` for some pattern of dangerous_patterns
Dangerous(user_intent) == user_intent = "DROP TABLE sales"

\* Faulty variant of PostInit: only the user's words are looked at.
PostInitIntentOnly(schema_info, user_intent) == Dangerous(user_intent)

\* LLMRequest.__post_init__ raises ValueError: the system prompt of
\* _build_dax_system_prompt holds no such fragment, the user prompt is the
\* schema text and the user's words inside a fixed frame.
PostInit(schema_info, user_intent) ==
    schema_info.danger \/ Dangerous(user_intent)

\* LLMProviderError(message, provider=type, recoverable=False) leaves
\* initialize_provider before OllamaProvider(config) is reached.
RaisedBeforeCreation(type, message) ==
    [type |-> type, result |-> "LLMProviderError", message |-> message,
     recoverable |-> FALSE, created |-> FALSE, invoked |-> FALSE]

\* Faulty variant of InitializeProvider: the air-gap check is left out.
InitializeProviderNoPolicy(type, ok) ==
    /\ IF type # "ollama"
       THEN /\ initialized' =
                 RaisedBeforeCreation(type, "Unknown provider type")
            /\ UNCHANGED <<providers, primary_provider>>
       ELSE /\ initialized' = NoCall
            /\ providers' = IF ok
                  THEN [p \in DOMAIN providers \cup {type} |->
                          IF p = type THEN "ready" ELSE providers[p]]
                  ELSE providers
            /\ primary_provider' =
                  IF ok /\ primary_provider = "none" THEN type
                  ELSE primary_provider
    /\ UNCHANGED <<deployment_mode, strict_mode, allow_descriptions,
                   allow_measures, violations, request_log, req,
                   provider_calls>>
    /\ UNCHANGED <<auditVars, adapterVars, boundaryVars>>

\* Faulty variant of InitializeProvider: a provider that initialized
\* becomes the primary whatever the primary was.
InitializeProviderTakesPrimary(type, ok) ==
    /\ IF deployment_mode = "airgap" /\ type # "ollama"
       THEN /\ initialized' =
                 RaisedBeforeCreation(type,
                                      "Air-gap mode only supports Ollama")
            /\ UNCHANGED <<providers, primary_provider>>
       ELSE IF type # "ollama"
       THEN /\ initialized' =
                 RaisedBeforeCreation(type, "Unknown provider type")
            /\ UNCHANGED <<providers, primary_provider>>
       ELSE /\ initialized' = NoCall
            /\ providers' = IF ok
                  THEN [p \in DOMAIN providers \cup {type} |->
                          IF p = type THEN "ready" ELSE providers[p]]
                  ELSE providers
            /\ primary_provider' = IF ok THEN type ELSE primary_provider
    /\ UNCHANGED <<deployment_mode, strict_mode, allow_descriptions,
                   allow_measures, violations, request_log, req,
                   provider_calls>>
    /\ UNCHANGED <<auditVars, adapterVars, boundaryVars>>

\* initialize_provider: `ok` is the outcome of OllamaProvider.initialize
\* (endpoint is localhost, Ollama answers, the model is there), the only
\* place of the call where the network is used.
InitializeProvider(type, ok) ==
    /\ IF deployment_mode = "airgap" /\ type # "ollama"
       THEN /\ initialized' =
                 RaisedBeforeCreation(type,
                                      "Air-gap mode only supports Ollama")
            /\ UNCHANGED <<providers, primary_provider>>
       ELSE IF type # "ollama"
       THEN /\ initialized' =
                 RaisedBeforeCreation(type, "Unknown provider type")
            /\ UNCHANGED <<providers, primary_provider>>
       ELSE /\ initialized' = NoCall
            /\ providers' = IF ok
                  THEN [p \in DOMAIN providers \cup {type} |->
                          IF p = type THEN "ready" ELSE providers[p]]
                  ELSE providers
            /\ primary_provider' =
                  IF ok /\ primary_provider = "none" THEN type
                  ELSE primary_provider
    /\ UNCHANGED <<deployment_mode, strict_mode, allow_descriptions,
                   allow_measures, violations, request_log, req,
                   provider_calls>>
    /\ UNCHANGED <<auditVars, adapterVars, boundaryVars>>

\* generate_dax from the answer v of validate_schema on.
GenerateDaxWith(r, v, user_intent) ==
    /\ req[r].pc = "new"
    /\ LET audit_record ==
              [record |-> CreateAuditRecord(v.sanitized, v.violations),
               request_id |-> r, user_intent |-> user_intent]
           danger == \/ ToPromptString(v.sanitized).danger
                     \/ user_intent \in {"DROP TABLE sales"}
       IN  /\ violations' = v.violations
           /\ IF v.raised
              THEN /\ req' = [req EXCEPT ![r].kind = "generate_dax",
                                         ![r].pc = "done",
                                         ![r].found = v.violations # <<>>,
                                         ![r].danger = danger,
                                         ![r].result = "DataBoundaryViolation"]
                   /\ UNCHANGED provider_calls
              ELSE IF GetProvider = "none"
              THEN /\ req' = [req EXCEPT ![r].kind = "generate_dax",
                                         ![r].pc = "done",
                                         ![r].found = v.violations # <<>>,
                                         ![r].danger = danger,
                                         ![r].result = "LLMProviderError"]
                   /\ UNCHANGED provider_calls
              ELSE IF PostInit(ToPromptString(v.sanitized), user_intent)
              THEN /\ req' = [req EXCEPT ![r].kind = "generate_dax",
                                         ![r].pc = "done",
                                         ![r].found = v.violations # <<>>,
                                         ![r].danger = danger,
                                         ![r].result = "ValueError"]
                   /\ UNCHANGED provider_calls
              ELSE /\ req' = [req EXCEPT ![r].kind = "generate_dax",
                                         ![r].pc = "awaiting",
                                         ![r].found = v.violations # <<>>,
                                         ![r].danger = danger,
                                         ![r].audit_record = <<audit_record>>]
                   /\ provider_calls' = provider_calls \cup
                        {[request_id |-> r, by |-> "generate_dax",
                          validated |-> TRUE,
                          logged |-> \E i \in 1..Len(request_log) :
                                        request_log[i].request_id = r]}
    /\ UNCHANGED <<initialized, deployment_mode, strict_mode, allow_descriptions,
                   allow_measures, providers, primary_provider, request_log>>
    /\ UNCHANGED <<auditVars, adapterVars, boundaryVars>>

\* generate_dax up to its first await (the POST of OllamaProvider.generate),
\* or to the exception that ends it before.
GenerateDax(r, schema, user_intent) ==
    GenerateDaxWith(r, ValidateSchema(schema), user_intent)

\* generate up to its first await: the caller's LLMRequest goes to the
\* provider as it is.
Generate(r) ==
    /\ req[r].pc = "new"
    /\ IF GetProvider = "none"
       THEN /\ req' = [req EXCEPT ![r].kind = "generate", ![r].pc = "done",
                                  ![r].result = "LLMProviderError"]
            /\ UNCHANGED provider_calls
       ELSE /\ req' = [req EXCEPT ![r].kind = "generate",
                                  ![r].pc = "awaiting"]
            /\ provider_calls' = provider_calls \cup
                 {[request_id |-> r, by |-> "generate", validated |-> FALSE,
                   logged |-> \E i \in 1..Len(request_log) :
                                 request_log[i].request_id = r]}
    /\ UNCHANGED <<initialized, deployment_mode, strict_mode, allow_descriptions,
                   allow_measures, violations, providers, primary_provider,
                   request_log>>
    /\ UNCHANGED <<auditVars, adapterVars, boundaryVars>>

\* An LLMResponse as far as the router reads it: latency_ms, total_tokens
\* (None is <<>>) and the property success, true of a content that is not
\* blank.
LLMResponses ==
    {[success |-> TRUE, latency_ms |-> 120, total_tokens |-> <<42>>],
     [success |-> FALSE, latency_ms |-> 30, total_tokens |-> <<>>]}

\* Faulty variant of ProviderReturns: the audit record is put at the head
\* of the request log.
ProviderReturnsLogsFirst(r, response) ==
    /\ req[r].pc = "awaiting"
    /\ request_log' =
          IF req[r].kind = "generate_dax"
          THEN <<[record |-> req[r].audit_record[1].record,
                  request_id |-> r,
                  user_intent |-> req[r].audit_record[1].user_intent,
                  response_latency_ms |-> response.latency_ms,
                  response_tokens |-> response.total_tokens,
                  success |-> response.success]>> \o request_log
          ELSE request_log
    /\ req' = [req EXCEPT ![r].pc = "done", ![r].result = "LLMResponse",
                          ![r].audit_record = <<>>]
    /\ UNCHANGED <<initialized, deployment_mode, strict_mode, allow_descriptions,
                   allow_measures, violations, providers, primary_provider,
                   provider_calls>>
    /\ UNCHANGED <<auditVars, adapterVars, boundaryVars>>

\* The POST answers 200: OllamaProvider.generate returns `response`, and
\* generate_dax completes its audit record from it and appends the record.
ProviderReturns(r, response) ==
    /\ req[r].pc = "awaiting"
    /\ request_log' =
          IF req[r].kind = "generate_dax"
          THEN Append(request_log,
                      [record |-> req[r].audit_record[1].record,
                       request_id |-> r,
                       user_intent |-> req[r].audit_record[1].user_intent,
                       response_latency_ms |-> response.latency_ms,
                       response_tokens |-> response.total_tokens,
                       success |-> response.success])
          ELSE request_log
    /\ req' = [req EXCEPT ![r].pc = "done", ![r].result = "LLMResponse",
                          ![r].audit_record = <<>>]
    /\ UNCHANGED <<initialized, deployment_mode, strict_mode, allow_descriptions,
                   allow_measures, violations, providers, primary_provider,
                   provider_calls>>
    /\ UNCHANGED <<auditVars, adapterVars, boundaryVars>>

\* httpx.TimeoutException: retried until max_retries attempts were made,
\* then LLMTimeoutError.
ProviderTimeout(r) ==
    /\ req[r].pc = "awaiting"
    /\ req' = IF req[r].attempt < MaxRetries - 1
              THEN [req EXCEPT ![r].attempt = @ + 1]
              ELSE [req EXCEPT ![r].pc = "done",
                               ![r].result = "LLMTimeoutError",
                               ![r].audit_record = <<>>]
    /\ UNCHANGED <<initialized, deployment_mode, strict_mode, allow_descriptions,
                   allow_measures, violations, providers, primary_provider,
                   request_log, provider_calls>>
    /\ UNCHANGED <<auditVars, adapterVars, boundaryVars>>

\* A status other than 200 (LLMProviderError), httpx.ConnectError
\* (LLMConnectionError), or the task is cancelled at the await.
ProviderRaises(r, error) ==
    /\ req[r].pc = "awaiting"
    /\ req' = [req EXCEPT ![r].pc = "done", ![r].result = error,
                          ![r].audit_record = <<>>]
    /\ UNCHANGED <<initialized, deployment_mode, strict_mode, allow_descriptions,
                   allow_measures, violations, providers, primary_provider,
                   request_log, provider_calls>>
    /\ UNCHANGED <<auditVars, adapterVars, boundaryVars>>

\* health_check: every registered provider is asked; the registry, the
\* primary and the request log are only read.
RouterHealthCheck ==
    /\ UNCHANGED <<initialized, deployment_mode, strict_mode, allow_descriptions,
                   allow_measures, violations, providers, primary_provider,
                   request_log, req, provider_calls>>
    /\ UNCHANGED <<auditVars, adapterVars, boundaryVars>>

\* Faulty variant of Shutdown: the primary is left as it was.
ShutdownKeepsPrimary ==
    /\ providers' = [p \in {} |-> "offline"]
    /\ UNCHANGED <<initialized, deployment_mode, strict_mode, allow_descriptions,
                   allow_measures, violations, primary_provider, request_log,
                   req, provider_calls>>
    /\ UNCHANGED <<auditVars, adapterVars, boundaryVars>>

\* shutdown
Shutdown ==
    /\ providers' = [p \in {} |-> "offline"]
    /\ primary_provider' = "none"
    /\ UNCHANGED <<initialized, deployment_mode, strict_mode, allow_descriptions,
                   allow_measures, violations, request_log, req,
                   provider_calls>>
    /\ UNCHANGED <<auditVars, adapterVars, boundaryVars>>

\* The router of an air-gapped deployment, given the local provider only.
RouterNext ==
    \/ \E ok \in BOOLEAN : InitializeProvider("ollama", ok)
    \/ \E r \in RequestIds, schema \in Schemas, intent \in UserIntents :
          GenerateDax(r, schema, intent)
    \/ \E r \in RequestIds : Generate(r)
    \/ \E r \in RequestIds, response \in LLMResponses :
          ProviderReturns(r, response)
    \/ \E r \in RequestIds : ProviderTimeout(r)
    \/ \E r \in RequestIds,
          error \in {"LLMProviderError", "LLMConnectionError",
                     "CancelledError"} : ProviderRaises(r, error)
    \/ RouterHealthCheck
    \/ Shutdown

(***************************************************************************)
(* The provider adapters (src/llm/ollama_provider.py,                      *)
(* src/llm/azure_provider.py, src/llm/azure_claude_provider.py)            *)
(***************************************************************************)
Adapters == {"OllamaProvider", "AzureOpenAIProvider", "AzureClaudeProvider"}

\* Hosts of config.endpoint (urlparse(endpoint).hostname).
Hosts == {"localhost", "::1", "api.example.com"}

\* Values of config.allowed_endpoints: the default, and a cloud host.
AllowLists == {{"127.0.0.1", "localhost"}, {"api.example.com"}}

Configs ==
    [max_retries : 0..MaxRetries, endpoint : Hosts,
     allowed_endpoints : AllowLists]

\* No generate call was made yet.
NoGenerate ==
    [pc |-> "idle", attempt |-> 0, posts |-> 0, sleeps |-> 0,
     timeouts |-> 0, last |-> "none", retry_without_temp |-> FALSE,
     result |-> "", recoverable |-> TRUE, reported |-> 0]

\* What the service does with the request of health_check: it answers with
\* a status, or the request raises (httpx.ConnectError, a timeout).
Responses == {"200", "400", "500", "raises"}

\* health_check was not called yet.
NoCheck == [response |-> "none", client |-> FALSE, answer |-> FALSE]

\* State of an adapter after construction (BaseLLMProvider.__init__).
AdapterInit ==
    /\ kind \in Adapters
    /\ config \in Configs
    /\ status = "initializing"
    /\ client = FALSE
    /\ network = FALSE
    /\ call = NoGenerate
    /\ last_health_check = 0
    /\ checked = NoCheck

\* OllamaProvider(LLMConfig(endpoint="http://localhost:11434")).
AdapterDefault ==
    /\ AdapterInit
    /\ kind = "OllamaProvider"
    /\ config = [max_retries |-> MaxRetries, endpoint |-> "localhost",
                 allowed_endpoints |-> {"127.0.0.1", "localhost"}]

\* OllamaProvider._validate_localhost_only
ValidateLocalhostOnly(host) == host \in {"127.0.0.1", "localhost", "::1"}

\* The check initialize makes before it creates the client: Ollama's is
\* _validate_localhost_only, the Azure adapters have none.
EndpointAccepted ==
    IF kind = "OllamaProvider" THEN ValidateLocalhostOnly(config.endpoint)
    ELSE TRUE

\* The value health_check returns for a response: Ollama wants 200, the
\* Azure adapters take 400 as well ("API reachable").
HealthAnswer(response) ==
    IF kind = "OllamaProvider" THEN response = "200"
    ELSE response \in {"200", "400"}

\* What health_check does to self._last_health_check: time.time() once a
\* response came, no assignment without a client or when the request
\* raised.
Stamp(response) ==
    IF client /\ response # "raises" THEN last_health_check + 1
    ELSE last_health_check

\* Faulty variant of HealthCheck: the answer is written to self._status.
HealthCheckSetsStatus(response) ==
    /\ call.pc # "post"
    /\ last_health_check < MaxChecks
    /\ last_health_check' = Stamp(response)
    /\ checked' = [response |-> response, client |-> client,
                   answer |-> client /\ response # "raises"
                                /\ HealthAnswer(response)]
    /\ status' = IF checked'.answer THEN "ready" ELSE "error"
    /\ UNCHANGED <<kind, config, client, network, call>>
    /\ UNCHANGED <<auditVars, routerVars, boundaryVars>>

\* health_check: False without a client or when the request raises, else
\* whether the response status is one the adapter accepts.
HealthCheck(response) ==
    /\ call.pc # "post"
    /\ last_health_check < MaxChecks
    /\ last_health_check' = Stamp(response)
    /\ checked' = [response |-> response, client |-> client,
                   answer |-> client /\ response # "raises"
                                /\ HealthAnswer(response)]
    /\ UNCHANGED <<kind, config, status, client, network, call>>
    /\ UNCHANGED <<auditVars, routerVars, boundaryVars>>

\* initialize: `response` is what the service does with the request of
\* health_check, `model_available` the answer of Ollama's
\* _check_model_available.
ProviderInitialize(response, model_available) ==
    /\ call.pc # "post"
    /\ last_health_check < MaxChecks
    /\ IF ~EndpointAccepted
       THEN /\ status' = "error"
            /\ UNCHANGED <<client, network, last_health_check>>
       ELSE /\ client' = TRUE
            /\ network' = TRUE
            /\ last_health_check' =
                  IF response # "raises" THEN last_health_check + 1
                  ELSE last_health_check
            /\ status' =
                  IF /\ response # "raises"
                     /\ HealthAnswer(response)
                     /\ kind = "OllamaProvider" => model_available
                  THEN "ready" ELSE "error"
    /\ UNCHANGED <<kind, config, call, checked>>
    /\ UNCHANGED <<auditVars, routerVars, boundaryVars>>

\* range(...) of the retry loop of generate.
Attempts ==
    IF kind = "AzureOpenAIProvider" THEN config.max_retries + 1
    ELSE config.max_retries

\* LLMTimeoutError after the loop: the message names config.max_retries.
TimedOut(c) ==
    [c EXCEPT !.pc = "done", !.result = "LLMTimeoutError",
              !.recoverable = TRUE, !.reported = config.max_retries]

\* `continue`: the next attempt, or the end of the loop.
Continue(c) ==
    IF c.attempt + 1 < Attempts THEN [c EXCEPT !.attempt = @ + 1]
    ELSE TimedOut(c)

\* generate up to its first POST, or to the end of a loop over an empty
\* range.
ProviderGenerate ==
    /\ call.pc # "post"
    /\ call' =
          IF ~client \/ status # "ready"
          THEN [NoGenerate EXCEPT !.pc = "done",
                                  !.result = "LLMConnectionError"]
          ELSE IF Attempts = 0
          THEN TimedOut(NoGenerate)
          ELSE [NoGenerate EXCEPT !.pc = "post"]
    /\ UNCHANGED <<kind, config, status, client, network,
                   last_health_check, checked>>
    /\ UNCHANGED <<auditVars, routerVars, boundaryVars>>

\* The POST answers 200: generate returns the LLMResponse.
Post200 ==
    /\ call.pc = "post"
    /\ call' = [call EXCEPT !.posts = @ + 1, !.last = "200",
                            !.pc = "done", !.result = "LLMResponse"]
    /\ UNCHANGED <<kind, config, status, client, network,
                   last_health_check, checked>>
    /\ UNCHANGED <<auditVars, routerVars, boundaryVars>>

\* Faulty variant of PostStatus: another status is handled like a timeout.
PostStatusRetried(unsupported_value) ==
    /\ call.pc = "post"
    /\ call' = Continue([call EXCEPT !.posts = @ + 1, !.last = "status"])
    /\ UNCHANGED <<kind, config, status, client, network,
                   last_health_check, checked>>
    /\ UNCHANGED <<auditVars, routerVars, boundaryVars>>

\* The POST answers another status: LLMProviderError, but Azure OpenAI
\* tries once more when the model rejects temperature or top_p.
PostStatus(unsupported_value) ==
    /\ call.pc = "post"
    /\ LET c == [call EXCEPT !.posts = @ + 1, !.last = "status"]
       IN  call' =
             IF /\ kind = "AzureOpenAIProvider"
                /\ unsupported_value
                /\ ~call.retry_without_temp
             THEN Continue([c EXCEPT !.retry_without_temp = TRUE])
             ELSE [c EXCEPT !.pc = "done", !.result = "LLMProviderError",
                            !.recoverable = TRUE]
    /\ UNCHANGED <<kind, config, status, client, network,
                   last_health_check, checked>>
    /\ UNCHANGED <<auditVars, routerVars, boundaryVars>>

\* httpx.TimeoutException: sleep retry_delay unless this was attempt
\* max_retries - 1, then `continue`.
PostTimeoutException ==
    /\ call.pc = "post"
    /\ LET c == [call EXCEPT !.posts = @ + 1, !.last = "timeout",
                             !.timeouts = @ + 1,
                             !.sleeps =
                                IF call.attempt < config.max_retries - 1
                                THEN @ + 1 ELSE @]
       IN  call' = Continue(c)
    /\ UNCHANGED <<kind, config, status, client, network,
                   last_health_check, checked>>
    /\ UNCHANGED <<auditVars, routerVars, boundaryVars>>

\* Faulty variant of PostConnectError: handled like a timeout.
PostConnectErrorRetried ==
    /\ call.pc = "post"
    /\ LET c == [call EXCEPT !.posts = @ + 1, !.last = "connect",
                             !.sleeps =
                                IF call.attempt < config.max_retries - 1
                                THEN @ + 1 ELSE @]
       IN  call' = Continue(c)
    /\ UNCHANGED <<kind, config, status, client, network,
                   last_health_check, checked>>
    /\ UNCHANGED <<auditVars, routerVars, boundaryVars>>

\* httpx.ConnectError: LLMConnectionError(recoverable=True) at once.
PostConnectError ==
    /\ call.pc = "post"
    /\ call' = [call EXCEPT !.posts = @ + 1, !.last = "connect",
                            !.pc = "done",
                            !.result = "LLMConnectionError",
                            !.recoverable = TRUE]
    /\ UNCHANGED <<kind, config, status, client, network,
                   last_health_check, checked>>
    /\ UNCHANGED <<auditVars, routerVars, boundaryVars>>

\* shutdown: the client is closed; only Ollama's sets the status.
ProviderShutdown ==
    /\ call.pc # "post"
    /\ client' = FALSE
    /\ status' = IF kind = "OllamaProvider" THEN "offline" ELSE status
    /\ UNCHANGED <<kind, config, call, network, last_health_check, checked>>
    /\ UNCHANGED <<auditVars, routerVars, boundaryVars>>

AdapterNext ==
    \/ \E response \in Responses, model_available \in BOOLEAN :
          ProviderInitialize(response, model_available)
    \/ \E response \in Responses : HealthCheck(response)
    \/ ProviderGenerate
    \/ Post200
    \/ \E unsupported_value \in BOOLEAN : PostStatus(unsupported_value)
    \/ PostTimeoutException
    \/ PostConnectError
    \/ ProviderShutdown

(***************************************************************************)
(* Specifications                                                          *)
(***************************************************************************)
\* State of an AuditLogger after construction, over a directory that may
\* hold segments of earlier runs.
LoggerInit ==
    /\ now = 0
    /\ sign_entries \in BOOLEAN
    /\ max_file_size \in 2..MaxSegLines
    /\ max_files \in 1..MaxRetain
    /\ \E n \in 0..MaxOldFiles :
          files = InitializeLogFiles(OldFiles(n, sign_entries), 0,
                                     sign_entries)
    /\ current_file = SegmentName(0)
    /\ previous_hash = InitializeLogHash(0, sign_entries)
    /\ event_count = 0
    /\ lock = "free"
    /\ pc = [t \in Threads |-> "idle"]
    /\ ev = [t \in Threads |-> NoEvent]
    /\ next_id = 1
    /\ vpc = "idle"
    /\ vtarget = 0
    /\ returned = {}
    /\ rot_unlinked = {}
    /\ tampered = <<>>

\* The audit logger beside a router nobody calls.
AuditInit ==
    LoggerInit /\ RouterDefault /\ AdapterDefault /\ BoundaryDefault

\* The router beside an audit logger nobody calls.
RouterStart ==
    /\ LoggerInit
    /\ sign_entries
    /\ max_file_size = MaxSegLines
    /\ max_files = MaxRetain
    /\ DOMAIN files = {SegmentName(0)}
    /\ RouterInit
    /\ AdapterDefault
    /\ BoundaryDefault

SpecRouter == RouterStart /\ [][RouterNext]_vars

\* Values of LLMStatus.
Statuses == {"initializing", "ready", "error", "offline"}

\* Registries a harness can install: every provider type is absent or
\* there with some status.
Registries ==
    UNION {[S -> Statuses] : S \in SUBSET ProviderTypes}

\* A router of any deployment mode, with the default DataBoundary, over a
\* registry of stub providers, any of them or none named as primary.
RegistryStart ==
    /\ LoggerInit
    /\ sign_entries
    /\ max_file_size = MaxSegLines
    /\ max_files = MaxRetain
    /\ DOMAIN files = {SegmentName(0)}
    /\ AdapterDefault
    /\ BoundaryDefault
    /\ deployment_mode \in {"airgap", "azure_private", "hybrid"}
    /\ strict_mode = TRUE
    /\ allow_descriptions = TRUE
    /\ allow_measures = TRUE
    /\ violations = <<>>
    /\ providers \in Registries
    /\ primary_provider \in {"none"} \cup ProviderTypes
    /\ request_log = <<>>
    /\ req = [r \in RequestIds |-> NoRequest]
    /\ initialized = NoCall
    /\ provider_calls = {}

\* Schemas of the calls made over such a registry: one the sanitizer lets
\* pass, one it refuses.
RegistrySchemas ==
    {PlainSchema, [PlainSchema EXCEPT !.model_description = Text(40, 20, 0)]}

\* The router given every provider type.
RegistryNext ==
    \/ \E type \in ProviderTypes, ok \in BOOLEAN :
          InitializeProvider(type, ok)
    \/ \E r \in RequestIds, schema \in RegistrySchemas,
          intent \in UserIntents : GenerateDax(r, schema, intent)
    \/ \E r \in RequestIds : Generate(r)
    \/ \E r \in RequestIds, response \in LLMResponses :
          ProviderReturns(r, response)
    \/ \E r \in RequestIds : ProviderTimeout(r)
    \/ \E r \in RequestIds,
          error \in {"LLMProviderError", "LLMConnectionError",
                     "CancelledError"} : ProviderRaises(r, error)
    \/ Shutdown

SpecRegistry == RegistryStart /\ [][RegistryNext]_vars

\* The calls of the request-log accounting: two more than the router's.
LogRequestIds == 1..(MaxRequests + 2)

\* The default router with the local provider registered and ready.
LogStart ==
    /\ LoggerInit
    /\ sign_entries
    /\ max_file_size = MaxSegLines
    /\ max_files = MaxRetain
    /\ DOMAIN files = {SegmentName(0)}
    /\ AdapterDefault
    /\ BoundaryDefault
    /\ deployment_mode = "airgap"
    /\ strict_mode = TRUE
    /\ allow_descriptions = TRUE
    /\ allow_measures = TRUE
    /\ violations = <<>>
    /\ providers = [p \in {"ollama"} |-> "ready"]
    /\ primary_provider = "ollama"
    /\ request_log = <<>>
    /\ req = [r \in LogRequestIds |-> NoRequest]
    /\ initialized = NoCall
    /\ provider_calls = {}

\* generate_dax calls only, overlapping at the await of the provider.
LogNext ==
    \/ \E r \in LogRequestIds, schema \in RegistrySchemas,
          intent \in UserIntents : GenerateDax(r, schema, intent)
    \/ \E r \in LogRequestIds, response \in LLMResponses :
          ProviderReturns(r, response)
    \/ \E r \in LogRequestIds : ProviderTimeout(r)
    \/ \E r \in LogRequestIds,
          error \in {"LLMProviderError", "LLMConnectionError",
                     "CancelledError"} : ProviderRaises(r, error)

SpecLog == LogStart /\ [][LogNext]_vars

\* An adapter beside a logger and a router nobody calls.
AdapterStart ==
    /\ LoggerInit
    /\ sign_entries
    /\ max_file_size = MaxSegLines
    /\ max_files = MaxRetain
    /\ DOMAIN files = {SegmentName(0)}
    /\ RouterDefault
    /\ AdapterInit
    /\ BoundaryDefault

SpecAdapter == AdapterStart /\ [][AdapterNext]_vars

\* One DataBoundary with any settings, beside a logger, a router and an
\* adapter nobody calls.
BoundaryStart ==
    /\ LoggerInit
    /\ sign_entries
    /\ max_file_size = MaxSegLines
    /\ max_files = MaxRetain
    /\ DOMAIN files = {SegmentName(0)}
    /\ RouterInit
    /\ AdapterDefault
    /\ allow_relationships \in BOOLEAN
    /\ caller = [c \in Callers |-> NoCaller]

SpecBoundary == BoundaryStart /\ [][BoundaryNext]_vars

AuditNext ==
    \/ \E t \in Threads : \E in \in LogInputs : LogBegin(t, in)
    \/ \E t \in Threads : LogWritePartial(t)
    \/ \E t \in Threads : LogWriteEvent(t)
    \/ \E t \in Threads : LogUpdateChain(t)
    \/ \E t \in Threads : LogCheckRotation(t)
    \/ \E t \in Threads : LogRotate(t)
    \/ Tick

VerifyNext ==
    \/ AuditNext
    \/ \E target \in SegmentNames : VerifyOpen(target)
    \/ VerifyReplay

SpecAudit == AuditInit /\ [][AuditNext]_vars

\* The audit logger on a disk where writes can fail.
WriteFailNext ==
    \/ AuditNext
    \/ \E t \in Threads : LogWriteFails(t)

SpecWriteFail == AuditInit /\ [][WriteFailNext]_vars

SpecVerify == AuditInit /\ [][VerifyNext]_vars

TamperNext ==
    \/ AuditNext
    \/ \E f \in SegmentNames : \E n \in 2..(MaxSegLines + 1) :
          \E m \in Messages : TamperMessage(f, n, m)
    \/ \E f \in SegmentNames : \E n \in 2..(MaxSegLines + 1) :
          TamperBreak(f, n)

\* Tampering is looked at under one rotation setting: two events a segment,
\* two segments kept.
TamperInit == AuditInit /\ max_file_size = 3 /\ max_files = 2

SpecTamper == TamperInit /\ [][TamperNext]_vars

\* The logger beside an outside writer that removes a line or alters an
\* unsigned field.
OutsideNext ==
    \/ AuditNext
    \/ \E f \in SegmentNames : \E n \in 2..(MaxSegLines + 1) :
          DeleteLine(f, n)
    \/ \E f \in SegmentNames : \E n \in 2..(MaxSegLines + 1) :
          \E field \in UnsignedFields : AlterField(f, n, field)

SpecOutside == TamperInit /\ [][OutsideNext]_vars

(***************************************************************************)
(* Properties of the audit logger                                          *)
(***************************************************************************)
Range(seq) == {seq[n] : n \in 1..Len(seq)}

AllWhole(lines) == \A n \in 1..Len(lines) : Parses(lines[n])

Idle == \A t \in Threads : pc[t] = "idle"

\* Events this logger wrote in a segment (an earlier run's have ids <= 0).
OwnEvents(lines) ==
    {n \in EventPlaces(lines) : lines[n].text.body.event_id >= 1}

\* C4: after any number of log() calls, verify_integrity on a segment nobody
\* altered returns valid = true with no chain failure and no signature
\* failure, having checked every event of it; each event's stored
\* previous_hash is the hash of the line written right before it.
C4_ChainValid ==
    \A f \in DOMAIN files :
        LET lines == files[f].lines
            r == VerifyIntegrity(lines)
        IN  AllWhole(lines) =>
              /\ r.valid
              /\ r.chain_failures = <<>>
              /\ r.signature_failures = <<>>
              /\ r.error = ""
              /\ r.events_checked = Len(lines) - 1
              /\ \A n \in 2..Len(lines) :
                    lines[n].text.body.previous_hash
                      = HashContent(Strip(lines[n - 1]))

\* Two log() calls of this logger landed in one segment, and both returned.
C4_Witness ==
    /\ Idle
    /\ \E f \in DOMAIN files :
          /\ AllWhole(files[f].lines)
          /\ Cardinality(OwnEvents(files[f].lines)) >= 2
          /\ VerifyIntegrity(files[f].lines).events_checked >= 2

\* C6: the steps of one log() call never interleave with those of another:
\* at most one thread is inside the body, and it holds the lock; the lines of
\* every segment form one chain, each event carrying the hash of the line
\* physically before it, and no two events of a segment share a
\* previous_hash.
C6_AppendsSerialize ==
    /\ \A t, u \in Threads : pc[t] # "idle" /\ pc[u] # "idle" => t = u
    /\ \A t \in Threads : pc[t] # "idle" => lock = t
    /\ \A f \in DOMAIN files :
          LET lines == files[f].lines
          IN  /\ \A n \in 2..Len(lines) :
                    lines[n].text.body.previous_hash
                      = HashContent(Strip(lines[n - 1]))
              /\ \A n, m \in 2..Len(lines) :
                    lines[n].text.body.previous_hash
                      = lines[m].text.body.previous_hash => n = m

\* A second call is inside the lock and has put its line right after the
\* line of the call before it.
C6_Witness ==
    /\ \E t \in Threads : pc[t] = "update" /\ lock = t
    /\ current_file \in DOMAIN files
    /\ Cardinality(OwnEvents(files[current_file].lines)) >= 2

\* C7: while verify_integrity replays the segment that is open for appends,
\* no log() call is between its write and its cursor update (the replay
\* holds the lock of the appends).
C7_VerifyHoldsLock ==
    (vpc = "replay" /\ vtarget = current_file) =>
        /\ lock \notin Threads
        /\ \A t \in Threads : pc[t] \notin {"writing", "update"}

\* C8: every event log() returned is one line, unchanged, of its segment
\* file, unless rotation unlinked that file (`returned` forgets the events
\* of an unlinked file).
C8_AppendOnly ==
    \A r \in returned :
        /\ r.file \in DOMAIN files
        /\ Cardinality({n \in 1..Len(files[r.file].lines) :
                           files[r.file].lines[n] = Line(r.text)}) = 1

\* The step in which thread t rotates.
Rotates(t) == pc[t] = "rotate" /\ ~NoRotation /\ pc'[t] = "idle"

\* No other segment is as new as f.
StrictlyNewest(f) ==
    \A g \in DOMAIN files \ {f} : files[g].mtime < files[f].mtime

\* C9 as it stands: a rotation never unlinks the segment that was just
\* written, and leaves at most max_files segments.
C9_NeverJustWritten ==
    [][\A t \in Threads : Rotates(t) =>
          /\ current_file \notin rot_unlinked'
          /\ Cardinality(DOMAIN files') <= max_files]_vars

\* C9, amended: a rotation unlinks only segments no newer than those it
\* keeps, as many as bring the directory to max_files - 1 before the new
\* segment is opened; the segment just written stays when max_files >= 2 and
\* it is strictly the newest; afterwards at most max_files segments exist.
C9_RotationRetention ==
    [][\A t \in Threads : Rotates(t) =>
          /\ rot_unlinked' \subseteq DOMAIN files
          /\ \A v \in rot_unlinked' : \A u \in DOMAIN files \ rot_unlinked' :
                files[v].mtime <= files[u].mtime
          /\ DOMAIN files' = (DOMAIN files \ rot_unlinked')
                                \cup {current_file'}
          /\ (max_files >= 2 /\ StrictlyNewest(current_file))
                => current_file \notin rot_unlinked'
          /\ Cardinality(DOMAIN files') <= max_files]_vars

\* A rotation unlinked an older segment and kept the one just written.
C9_Witness ==
    /\ Idle
    /\ max_files >= 2
    /\ rot_unlinked # {}
    /\ \E f \in DOMAIN files : f # current_file /\ OwnEvents(files[f].lines) # {}

\* C10: every segment starts with a header and holds no other; its first
\* event carries the hash of that header; and when the open segment holds
\* its header alone (a rotation has just opened it) the cursor is the hash
\* of that header.
C10_PerSegmentChain ==
    /\ \A f \in DOMAIN files :
          LET lines == files[f].lines
          IN  /\ Len(lines) >= 1
              /\ \A n \in 1..Len(lines) : IsHeader(lines[n].text) <=> n = 1
              /\ Len(lines) >= 2 =>
                    lines[2].text.body.previous_hash
                      = HashContent(Strip(lines[1]))
    /\ current_file \in DOMAIN files
    /\ Len(files[current_file].lines) = 1 =>
          previous_hash = HashContent(Strip(files[current_file].lines[1]))

\* The open segment was opened by a rotation (its header was written after
\* the start) and the first event appended to it is in place.
C10_Witness ==
    /\ \E t \in Threads : pc[t] = "rotate"
    /\ current_file \in DOMAIN files
    /\ LET lines == files[current_file].lines
       IN  /\ lines[1].text.body.created_at > 0
           /\ Len(lines) >= 2
           /\ lines[2].text.body.previous_hash = HashContent(Strip(lines[1]))
           /\ \E f \in DOMAIN files \ {current_file} :
                 OwnEvents(files[f].lines) # {}

(***************************************************************************)
(* Properties of verify_integrity on a segment changed from outside        *)
(***************************************************************************)
\* The changed line is still where the outside writer put it.
TamperInPlace ==
    /\ tampered # <<>>
    /\ tampered[1].file \in DOMAIN files
    /\ tampered[1].place <= Len(files[tampered[1].file].lines)
    /\ files[tampered[1].file].lines[tampered[1].place] = tampered[1].line

TamperedLines == files[tampered[1].file].lines

\* Places after the changed line that verify_integrity gets to: every line
\* up to there parses.
LaterPlaces ==
    {n \in (tampered[1].place + 1)..Len(TamperedLines) :
        \A m \in 1..n : Parses(TamperedLines[m])}

ProviderCalled(r) == \E c \in provider_calls : c.request_id = r

Logged(r) == \E i \in 1..Len(request_log) : request_log[i].request_id = r

\* C1: in strict mode, a generate_dax call whose sanitizing recorded a
\* violation ends with DataBoundaryViolation: the provider's generate is not
\* invoked for it and no record of it enters the request log.
C1_FailClosed ==
    \A r \in RequestIds :
        (strict_mode /\ req[r].kind = "generate_dax" /\ req[r].found) =>
            /\ req[r].pc = "done"
            /\ req[r].result = "DataBoundaryViolation"
            /\ ~ProviderCalled(r)
            /\ ~Logged(r)

\* A strict router with a ready provider turned a generate_dax call down.
C1_Witness ==
    /\ strict_mode
    /\ GetProvider # "none"
    /\ violations # <<>>
    /\ \E r \in RequestIds :
          /\ req[r].kind = "generate_dax"
          /\ req[r].found
          /\ req[r].result = "DataBoundaryViolation"

\* C2: every call of the provider's generate made through the router, by
\* generate_dax or by generate, comes after a validate_schema call of the
\* same request that returned without error.
C2_EveryCallSanitized == \A c \in provider_calls : c.validated

\* C3: the audit record of a generate_dax call is in the request log when
\* the provider's generate is invoked, and it is there while the call waits
\* for the provider and after the provider failed, timed out or the call
\* was cancelled.
C3_RecordBeforeCall ==
    /\ \A c \in provider_calls : c.by = "generate_dax" => c.logged
    /\ \A r \in RequestIds :
          (req[r].kind = "generate_dax" /\ ProviderCalled(r)) => Logged(r)

(***************************************************************************)
(* Properties of a failed write                                            *)
(***************************************************************************)
\* The last line of a file that a write completed.
RECURSIVE LastWritten(_)
LastWritten(lines) ==
    IF lines[Len(lines)].part \in {"all", "garbled"} THEN lines[Len(lines)]
    ELSE LastWritten(SubSeq(lines, 1, Len(lines) - 1))

\* The step in which log() of thread t is left by a failed write.
WriteFailed(t) == pc[t] \in {"write", "writing"} /\ pc'[t] = "idle"

\* C11: when writing the event line fails, log() is left with the lock
\* released and with the cursor and the event counter as they were; hence,
\* whenever nobody is inside log(), the cursor is the hash of the last line
\* a write completed, and the next event is chained to that line.
C11_FailedWrite ==
    /\ [][\A t \in Threads : WriteFailed(t) =>
             /\ lock' = "free"
             /\ previous_hash' = previous_hash
             /\ event_count' = event_count
             /\ returned' = returned]_vars
    /\ [](lock = "free" =>
             previous_hash
               = HashContent(Strip(LastWritten(files[current_file].lines))))
    /\ [](\A t \in Threads : pc[t] = "write" =>
             ev[t].event.previous_hash
               = HashContent(Strip(LastWritten(files[current_file].lines))))

\* A write failed after a piece of its line reached the file, and the next
\* log() call went through.
C11_Witness ==
    /\ Idle
    /\ event_count >= 1
    /\ \E n \in 1..Len(files[current_file].lines) :
          files[current_file].lines[n].part = "garbled"

(***************************************************************************)
(* Properties of the router's provider policy                              *)
(***************************************************************************)
\* The step is an initialize_provider(type) call in air-gap mode.
AirgapCall(type) ==
    /\ deployment_mode = "airgap"
    /\ \E ok \in BOOLEAN : InitializeProvider(type, ok)

\* C12: in air-gap mode initialize_provider of any kind but the local one
\* raises the non-recoverable air-gap error before a provider is created
\* or its initialize invoked, and leaves registry and primary as they were.
C12_AirgapPolicy ==
    [][\A type \in ProviderTypes \ {"ollama"} : AirgapCall(type) =>
          /\ initialized'.result = "LLMProviderError"
          /\ initialized'.message = "Air-gap mode only supports Ollama"
          /\ ~initialized'.recoverable
          /\ ~initialized'.created
          /\ ~initialized'.invoked
          /\ providers' = providers
          /\ primary_provider' = primary_provider]_vars

\* A cloud provider was refused while the local one is registered.
C12_Witness ==
    /\ deployment_mode = "airgap"
    /\ initialized.type = "azure_foundry"
    /\ initialized.result = "LLMProviderError"
    /\ primary_provider = "ollama"

(***************************************************************************)
(* Properties of the provider adapters                                     *)
(***************************************************************************)
\* Every attempt of the generate call so far ended in a timeout.
OnlyTimeouts == call.posts > 0 /\ call.timeouts = call.posts

\* C13: in every adapter, a call whose attempts time out goes on until
\* max_retries attempts were made; an answer at attempt k <= max_retries
\* ends it after k attempts, and when all time out it ends after exactly
\* max_retries attempts with a timeout error that names that count.
C13_RetryCount ==
    /\ OnlyTimeouts /\ call.posts < config.max_retries => call.pc = "post"
    /\ call.result = "LLMResponse" =>
          call.last = "200" /\ call.pc = "done"
    /\ OnlyTimeouts /\ call.pc = "done" =>
          /\ call.result = "LLMTimeoutError"
          /\ call.posts = config.max_retries
          /\ call.reported = call.posts

\* The step is an attempt that ends in httpx.ConnectError.
ConnectFails == call.pc = "post" /\ call'.last = "connect"

\* C14: in every adapter a connect error ends generate at once with the
\* connection error: no further attempt is made and no retry delay slept.
C14_ConnectNotRetried ==
    /\ [][ConnectFails =>
             /\ call'.pc = "done"
             /\ call'.result = "LLMConnectionError"
             /\ call'.posts = call.posts + 1
             /\ call'.sleeps = call.sleeps]_vars
    /\ [](call.last = "connect" =>
             call.pc = "done" /\ call.result = "LLMConnectionError")

\* Azure OpenAI was refused the connection on its last attempt, after
\* attempts that timed out.
C14_Witness ==
    /\ kind = "AzureOpenAIProvider"
    /\ call.last = "connect"
    /\ call.timeouts = config.max_retries
    /\ call.posts = config.max_retries + 1

\* C15: the error raised for a refused connection is not recoverable, in
\* every adapter.
C15_ConnectionRefusedFatal ==
    call.last = "connect" /\ call.result = "LLMConnectionError" =>
       ~call.recoverable

\* C16: with an endpoint host outside config.allowed_endpoints, initialize
\* of every adapter fails: no HTTP client is made, no request is sent, and
\* the adapter does not become ready.
C16_EndpointAllowList ==
    config.endpoint \notin config.allowed_endpoints =>
       /\ ~client
       /\ ~network
       /\ status # "ready"

(***************************************************************************)
(* Properties of LLMRequest                                                *)
(***************************************************************************)
\* generate_dax of request r came to the provider's generate_dax: the
\* sanitizer let the schema pass and a Ready primary was there.
ReachedProvider(r) ==
    /\ req[r].kind = "generate_dax"
    /\ req[r].pc # "new"
    /\ req[r].result # "DataBoundaryViolation"
    /\ ~(req[r].result = "LLMProviderError" /\ ~ProviderCalled(r))

\* C17: a generate_dax call whose schema text or user intent holds one of
\* the refused fragments never comes to the provider's generate: where it
\* comes to the construction of the LLMRequest it ends in ValueError.
C17_DangerousRequest ==
    \A r \in RequestIds :
       req[r].kind = "generate_dax" /\ req[r].danger =>
          /\ ~ProviderCalled(r)
          /\ ReachedProvider(r) =>
                req[r].pc = "done" /\ req[r].result = "ValueError"

\* A request with harmless words was refused for its schema text.
C17_Witness ==
    \E r \in RequestIds :
       /\ req[r].danger
       /\ req[r].result = "ValueError"
       /\ GetProvider # "none"
       /\ ~req[r].found

(***************************************************************************)
(* Properties of provider selection                                        *)
(***************************************************************************)
\* The router has a primary, it is registered, and its status is Ready.
ReadyPrimary ==
    /\ primary_provider # "none"
    /\ primary_provider \in DOMAIN providers
    /\ providers[primary_provider] = "ready"

\* The step is the start of request r: generate_dax or generate is called.
Called(r) == req[r].pc = "new" /\ req'[r].pc # "new"

\* C18: without a Ready primary generate_dax (once the sanitizer let the
\* schema pass) and generate end in the no-provider error and no provider
\* is called; a provider is called only when the primary is Ready.
C18_NoProviderAvailable ==
    [][\A r \in RequestIds : Called(r) =>
          /\ ~ReadyPrimary /\ req'[r].result # "DataBoundaryViolation" =>
                /\ req'[r].pc = "done"
                /\ req'[r].result = "LLMProviderError"
                /\ provider_calls' = provider_calls
          /\ provider_calls' # provider_calls => ReadyPrimary]_vars

\* generate_dax was refused over a registered primary whose status is
\* Error.
C18_Witness ==
    \E r \in RequestIds :
       /\ req[r].kind = "generate_dax"
       /\ req[r].result = "LLMProviderError"
       /\ ~ProviderCalled(r)
       /\ primary_provider \in DOMAIN providers
       /\ providers[primary_provider] = "error"
       /\ initialized = NoCall

(***************************************************************************)
(* Properties of validate_schema                                           *)
(***************************************************************************)
\* C19: validate_schema ends in DataBoundaryViolation exactly when
\* strict_mode is set and the call recorded a violation, and the error
\* then holds the whole list; in every other case the sanitized schema is
\* returned, and in both the list of that call is what the caller reads.
C19_RaisesIffStrict ==
    [][\A r \in RequestIds :
          Called(r) /\ req'[r].kind = "generate_dax" =>
             /\ req'[r].result = "DataBoundaryViolation"
                   <=> strict_mode /\ violations' # <<>>
             /\ req'[r].pc = "awaiting" =>
                   req'[r].audit_record[1].record.violations = violations'
             /\ \E schema \in Schemas :
                   /\ violations' = ValidateSchema(schema).violations
                   /\ ValidateSchema(schema).raised
                         <=> req'[r].result = "DataBoundaryViolation"
                   /\ ValidateSchema(schema).message =
                         IF req'[r].result = "DataBoundaryViolation"
                         THEN violations' ELSE <<>>]_vars

\* A call was refused in strict mode, its violation in the list the caller
\* reads.
C19_Witness ==
    \E r \in RequestIds :
       /\ strict_mode
       /\ req[r].result = "DataBoundaryViolation"
       /\ violations # <<>>

\* Every description of `schema` that matches a leak pattern is
\* "[REDACTED]" in the sanitized copy `out` (a measure that was dropped has
\* no description left).
RedactedInPlace(schema, out) ==
    /\ Leaks(schema.model_description) => out.model_description = Redacted
    /\ \A i \in 1..Len(schema.tables) :
          /\ Leaks(schema.tables[i].description) =>
                out.tables[i].description = Redacted
          /\ \A j \in 1..Len(schema.tables[i].columns) :
                Leaks(schema.tables[i].columns[j].description) =>
                   out.tables[i].columns[j].description = Redacted
    /\ Len(out.measures) = Len(schema.measures) =>
          \A i \in 1..Len(schema.measures) :
             Leaks(schema.measures[i].description) =>
                out.measures[i].description = Redacted

HasLeakingDescription(schema) == ~RedactedInPlace(schema, schema)

\* The schemas generate_dax of request r, now at the provider, can have
\* been called with.
SchemasOf(r) ==
    {schema \in Schemas :
        CreateAuditRecord(ValidateSchema(schema).sanitized,
                          ValidateSchema(schema).violations)
           = req[r].audit_record[1].record}

\* C20: for a schema with a description that matches a leak pattern (and
\* descriptions allowed), validate_schema in strict mode records a violation and redacts the
\* field or raises; without strict mode it returns a schema in which the
\* field holds "[REDACTED]".
C20_LeakRedaction ==
    \A r \in RequestIds :
       /\ req[r].kind = "generate_dax"
       /\ req[r].pc = "awaiting"
       /\ allow_descriptions
       => \A schema \in SchemasOf(r) :
             HasLeakingDescription(schema) =>
                LET v == ValidateSchema(schema)
                IN  IF strict_mode
                    THEN /\ v.violations # <<>>
                         /\ v.raised \/ RedactedInPlace(schema, v.sanitized)
                    ELSE /\ ~v.raised
                         /\ RedactedInPlace(schema, v.sanitized)

(***************************************************************************)
(* DataBoundary called directly (SpecBoundary)                             *)
(***************************************************************************)
\* Request c made its validate_schema call.
Validated(c) == caller[c].pc # "new"

\* The list of violations holds one with the words v.
Holds(list, v) == \E i \in 1..Len(list) : list[i].text = v

\* C21: the last pass of validate_schema looks at the prompt text of the
\* whole sanitized schema: a leak pattern matching in it, or a length over
\* 50000 characters, is among the violations of the call whatever the
\* field-by-field passes found, so that a schema validate_schema returns
\* in strict mode has a prompt text without a match and of at most 50000
\* characters.
C21_FinalPass ==
    \A c \in Callers :
        Validated(c) =>
            /\ ToPromptString(caller[c].sanitized).leak
                  => Holds(caller[c].found, "Final schema contains data pattern")
            /\ ToPromptString(caller[c].sanitized).len > MaxPromptLength
                  => Holds(caller[c].found, "Schema too large")
            /\ strict_mode /\ ~caller[c].raised
                  => /\ ~ToPromptString(caller[c].sanitized).leak
                     /\ ToPromptString(caller[c].sanitized).len
                          <= MaxPromptLength

\* In strict mode one call was refused on the word of the last pass alone
\* and another returned.
C21_Witness ==
    /\ strict_mode
    /\ \E c \in Callers :
          /\ Validated(c) /\ caller[c].raised
          /\ caller[c].found
               = <<Violation("Final schema contains data pattern", NoText)>>
    /\ \E c \in Callers : Validated(c) /\ ~caller[c].raised

\* No pattern of DATA_LEAK_PATTERNS matches in a field of the schema.
MatchesNoPattern(schema) ==
    /\ ~Leaks(schema.model_description)
    /\ \A i \in 1..Len(schema.tables) : ~TableLeaks(schema.tables[i])
    /\ \A i \in 1..Len(schema.measures) : ~MeasureLeaks(schema.measures[i])
    /\ \A i \in 1..Len(schema.relationships) :
          ~RelationshipLeaks(schema.relationships[i])

\* C22: validate_schema does not raise for a schema in which no leak
\* pattern matches and whose sanitized prompt text fits the limit, however
\* long its descriptions and measure expressions are, in strict mode as
\* in lenient mode.
C22_LongInputReturns ==
    \A c \in Callers :
        /\ Validated(c)
        /\ MatchesNoPattern(caller[c].schema)
        /\ ToPromptString(caller[c].sanitized).len <= MaxPromptLength
        => ~caller[c].raised

\* C23: a schema validate_schema returned is returned unchanged, field for
\* field, by validate_schema under the same settings.
C23_Idempotent ==
    \A c \in Callers :
        Validated(c) /\ ~caller[c].raised
        => /\ ~ValidateSchema(caller[c].sanitized).raised
           /\ ValidateSchema(caller[c].sanitized).sanitized
                = caller[c].sanitized

\* The expression as _sanitize_measure scans it for leak patterns.
Scanned(expression) ==
    IF expression.len > MAX_MEASURE_EXPRESSION_LENGTH
    THEN Truncate(expression, MAX_MEASURE_EXPRESSION_LENGTH)
    ELSE expression

\* The names of the measures of a list, in its order.
MeasureNames(measures) == [i \in 1..Len(measures) |-> measures[i].name]

\* What strict mode does with the measures for which `matches` holds: they
\* are not in the sanitized list, a violation names each, and the others
\* stay in their order.
DropsMeasures(c, matches(_)) ==
    /\ \A i \in 1..Len(caller[c].schema.measures) :
          matches(caller[c].schema.measures[i])
          => \E k \in 1..Len(caller[c].found) :
                /\ caller[c].found[k].of = caller[c].schema.measures[i].name
                /\ caller[c].found[k].text
                     \in {"Measure contains potential data leak pattern",
                          "Measure expression too long, truncating"}
    /\ MeasureNames(caller[c].sanitized.measures)
         = MeasureNames(SelectSeq(
              [i \in 1..Len(caller[c].schema.measures) |->
                 [caller[c].schema.measures[i] EXCEPT
                    !.name = SanitizeIdentifier(@)]],
              LAMBDA m : ~matches(m)))

\* C24 as stated: under strict mode (measures allowed) a measure whose
\* expression matches a leak pattern is left out of the sanitized measure
\* list and a violation names it; the measures without a match stay, in
\* their order.
C24_LeakingMeasureDropped ==
    \A c \in Callers :
        Validated(c) /\ strict_mode /\ allow_measures
        => DropsMeasures(c, LAMBDA m : Leaks(m.expression))

\* C24, amended: the same of a measure whose expression matches a leak
\* pattern within the part _sanitize_measure keeps, its first 2000
\* characters when it is longer.
C24_ScannedMeasureDropped ==
    \A c \in Callers :
        Validated(c) /\ strict_mode /\ allow_measures
        => DropsMeasures(c, LAMBDA m : Leaks(Scanned(m.expression)))

\* In strict mode a call was handed three measures, the second one with a
\* match, and kept the first and the third.
C24_Witness ==
    \E c \in Callers :
        /\ Validated(c) /\ strict_mode /\ allow_measures
        /\ Len(caller[c].schema.measures) = 3
        /\ Leaks(caller[c].schema.measures[2].expression)
        /\ MeasureNames(caller[c].sanitized.measures)
             = <<caller[c].schema.measures[1].name,
                 caller[c].schema.measures[3].name>>

\* C25: whatever the order of the two requests' validate_schema calls and
\* of their later get_violations and create_audit_record calls, the list a
\* request reads is the list of violations of its own schema.
C25_OwnViolations ==
    \A c \in Callers :
        caller[c].seen # <<>> => caller[c].seen[1] = caller[c].found

\* C30: with allow_relationships the sanitized relationships are those of
\* the input, element for element and in order; without it there are
\* none; without allow_measures the sanitized schema has no measure and
\* no violation about a measure is recorded, whatever the input holds.
C30_Toggles ==
    \A c \in Callers :
        Validated(c) =>
            /\ allow_relationships
                  => caller[c].sanitized.relationships
                       = caller[c].schema.relationships
            /\ ~allow_relationships
                  => caller[c].sanitized.relationships = <<>>
            /\ ~allow_measures
                  => /\ caller[c].sanitized.measures = <<>>
                     /\ ~Holds(caller[c].found,
                               "Measure contains potential data leak pattern")
                     /\ ~Holds(caller[c].found,
                               "Measure expression too long, truncating")

\* With relationships allowed and measures not, a call was handed two
\* relationships and a measure with a currency value.
C30_Witness ==
    \E c \in Callers :
        /\ Validated(c)
        /\ allow_relationships /\ ~allow_measures
        /\ Len(caller[c].schema.relationships) = 2
        /\ caller[c].sanitized.relationships = caller[c].schema.relationships
        /\ \E i \in 1..Len(caller[c].schema.measures) :
              Leaks(caller[c].schema.measures[i].expression)

(***************************************************************************)
(* The provider adapters: status and health checks (SpecAdapter)           *)
(***************************************************************************)
\* The changes of status C26 allows.
AllowedTransitions ==
    {<<"initializing", "ready">>, <<"initializing", "error">>,
     <<"ready", "error">>, <<"error", "ready">>,
     <<"initializing", "offline">>, <<"ready", "offline">>,
     <<"error", "offline">>}

\* C26: the status is one of Initializing, Ready, Error and Offline; it
\* goes from Initializing to Ready or Error and to Offline on shutdown,
\* and between Ready and Error by health checks: a health_check that
\* fails on a Ready provider leaves it in Error, one that passes on a
\* provider in Error leaves it Ready.
C26_StatusTransitions ==
    [][/\ status' \in Statuses
       /\ status' # status => <<status, status'>> \in AllowedTransitions
       /\ \A response \in Responses :
             HealthCheck(response) =>
                /\ status = "ready" /\ ~checked'.answer => status' = "error"
                /\ status = "error" /\ checked'.answer => status' = "ready"
      ]_vars

\* C27 as stated: a health_check call changes no field of the provider,
\* and gives the answer of the call before it when the service does the
\* same with the request.
C27_HealthCheckPure ==
    [][\A response \in Responses :
          HealthCheck(response) =>
             /\ UNCHANGED <<kind, config, status, client, last_health_check>>
             /\ checked.response = response /\ checked.client = client
                   => checked'.answer = checked.answer
      ]_vars

\* C27, amended: a health_check call changes no field of the provider but
\* _last_health_check, and gives the answer of the call before it when the
\* service does the same with the request.
C27_HealthCheckKeepsStatus ==
    [][\A response \in Responses :
          HealthCheck(response) =>
             /\ UNCHANGED <<kind, config, status, client>>
             /\ checked.response = response /\ checked.client = client
                   => checked'.answer = checked.answer
      ]_vars

\* A Ready provider was checked twice and the second check failed.
C27_Witness ==
    /\ status = "ready"
    /\ client
    /\ last_health_check = 2
    /\ checked.response = "500"
    /\ ~checked.answer

\* C28 as stated: in every adapter a POST answered with a status other
\* than 200 ends generate in LLMProviderError, no further request sent.
C28_StatusNotRetried ==
    call.last = "status" =>
       call.pc = "done" /\ call.result = "LLMProviderError"

\* C28, amended: the same, but for the first 400 "unsupported_value"
\* answer about temperature or top_p to AzureOpenAIProvider, after which
\* the loop goes on without these parameters.
C28_StatusNotRetriedButOnce ==
    [][\A unsupported_value \in BOOLEAN :
          /\ PostStatus(unsupported_value)
          /\ ~(/\ kind = "AzureOpenAIProvider"
                /\ unsupported_value
                /\ ~call.retry_without_temp)
          => /\ call'.pc = "done"
             /\ call'.result = "LLMProviderError"
             /\ call'.posts = call.posts + 1
      ]_vars

\* Azure OpenAI went on once after "unsupported_value" and ended in
\* LLMProviderError at the next answer of this kind.
C28_Witness ==
    /\ kind = "AzureOpenAIProvider"
    /\ call.retry_without_temp
    /\ call.last = "status"
    /\ call.posts = 2
    /\ call.pc = "done"
    /\ call.result = "LLMProviderError"

\* C29: a generate call whose attempts all timed out, the last one
\* perhaps excepted, slept retry_delay once between every two of them
\* and not after the last: n attempts, n - 1 delays.
C29_DelayBetweenAttempts ==
    /\ call.pc = "done"
    /\ call.posts >= 1
    /\ \/ call.timeouts = call.posts
       \/ call.timeouts = call.posts - 1 /\ call.last # "timeout"
    => call.sleeps = call.posts - 1

\* Request c made its validate_schema call and was handed the sanitized
\* schema.
Returned(c) == Validated(c) /\ ~caller[c].raised

\* C39: without allow_descriptions the schema validate_schema returns has
\* no description: not of the model, not of a table, a column or a
\* measure.
C39_NoDescriptions ==
    \A c \in Callers :
        Returned(c) /\ ~allow_descriptions =>
            /\ caller[c].sanitized.model_description = NoText
            /\ \A i \in 1..Len(caller[c].sanitized.tables) :
                  /\ caller[c].sanitized.tables[i].description = NoText
                  /\ \A j \in 1..Len(caller[c].sanitized.tables[i].columns) :
                        caller[c].sanitized.tables[i].columns[j].description
                          = NoText
            /\ \A i \in 1..Len(caller[c].sanitized.measures) :
                  caller[c].sanitized.measures[i].description = NoText

\* C40: in a schema validate_schema returns, the table_name of a column is
\* the name of its table, and no name of a table, a column or a measure
\* and no table_name of a column or a measure holds one of the
\* characters _sanitize_identifier removes.
C40_Identifiers ==
    \A c \in Callers :
        Returned(c) =>
            /\ \A i \in 1..Len(caller[c].sanitized.tables) :
                  /\ caller[c].sanitized.tables[i].name.junk = 0
                  /\ \A j \in 1..Len(caller[c].sanitized.tables[i].columns) :
                        /\ caller[c].sanitized.tables[i].columns[j].name.junk
                             = 0
                        /\ caller[c].sanitized.tables[i].columns[j].table_name
                             = caller[c].sanitized.tables[i].name
            /\ \A i \in 1..Len(caller[c].sanitized.measures) :
                  /\ caller[c].sanitized.measures[i].name.junk = 0
                  /\ caller[c].sanitized.measures[i].table_name.junk = 0

\* DataBoundary() as its defaults make it.
DefaultConfiguration ==
    strict_mode /\ allow_descriptions /\ allow_measures /\ allow_relationships

\* Every description and expression of the schema is within its limit.
WithinLimits(schema) ==
    /\ schema.model_description.len <= MAX_TABLE_DESCRIPTION_LENGTH
    /\ \A i \in 1..Len(schema.tables) :
          /\ schema.tables[i].description.len <= MAX_TABLE_DESCRIPTION_LENGTH
          /\ \A j \in 1..Len(schema.tables[i].columns) :
                schema.tables[i].columns[j].description.len
                  <= MAX_COLUMN_DESCRIPTION_LENGTH
    /\ \A i \in 1..Len(schema.measures) :
          /\ schema.measures[i].expression.len
               <= MAX_MEASURE_EXPRESSION_LENGTH
          /\ schema.measures[i].description.len
               <= MAX_COLUMN_DESCRIPTION_LENGTH

\* Place of a kind of line in the section order.
Rank(line) ==
    CASE line = "TABLES:" -> 1
      [] line = "table" -> 2
      [] line = "MEASURES:" -> 3
      [] line = "measure" -> 4
      [] line = "RELATIONSHIPS:" -> 5
      [] OTHER -> 6

\* How often a kind of line occurs.
Count(lines, line) == Cardinality({i \in 1..Len(lines) : lines[i] = line})

\* The prompt text of the result of request c has the sections in their
\* order, the optional headers where there is something under them, `blocks`
\* table blocks, and a line per relationship, marked (inactive) exactly
\* when the relationship is not active.
Canonical(c, blocks) ==
    /\ caller[c].found = <<>>
    /\ ~caller[c].raised
    /\ Sections(caller[c].sanitized)[1] = "TABLES:"
    /\ \A i, j \in 1..Len(Sections(caller[c].sanitized)) :
          i < j => Rank(Sections(caller[c].sanitized)[i])
                     <= Rank(Sections(caller[c].sanitized)[j])
    /\ Count(Sections(caller[c].sanitized), "TABLES:") = 1
    /\ Count(Sections(caller[c].sanitized), "table") = blocks
    /\ Count(Sections(caller[c].sanitized), "MEASURES:")
         = IF caller[c].schema.measures # <<>> THEN 1 ELSE 0
    /\ Count(Sections(caller[c].sanitized), "RELATIONSHIPS:")
         = IF caller[c].schema.relationships # <<>> THEN 1 ELSE 0
    /\ \A k \in 1..Len(caller[c].schema.relationships) :
          Sections(caller[c].sanitized)
             [Len(Sections(caller[c].sanitized))
                - Len(caller[c].schema.relationships) + k]
            = IF caller[c].schema.relationships[k].is_active
              THEN "from[col] -> to[col] (cardinality)"
              ELSE "from[col] -> to[col] (cardinality) (inactive)"

\* The schema of request c matches no leak pattern and is within the
\* limits, and the DataBoundary has its default configuration.
CleanUnderDefaults(c) ==
    /\ Validated(c)
    /\ DefaultConfiguration
    /\ MatchesNoPattern(caller[c].schema)
    /\ WithinLimits(caller[c].schema)
    /\ ToPromptString(caller[c].sanitized).len <= MaxPromptLength

RecordsOf(r) == {i \in 1..Len(request_log) : request_log[i].request_id = r}

\* One record for each generate_dax call that returned a response, none
\* for any other, and data_included false in each.
LogAccounts ==
    /\ \A r \in DOMAIN req :
          Cardinality(RecordsOf(r)) =
             IF req[r].kind = "generate_dax" /\ req[r].result = "LLMResponse"
             THEN 1 ELSE 0
    /\ \A i \in 1..Len(request_log) :
          request_log[i].record.data_included = FALSE

AsLeft(how) ==
    /\ tampered # <<>>
    /\ tampered[1].how \in how
    /\ tampered[1].file \in DOMAIN files
    /\ files[tampered[1].file].lines = tampered[1].lines

\* C33: after one event line was removed from a segment, the last one
\* included, verify_integrity on that segment returns valid = false.
C33_DeletionDetected ==
    AsLeft({"deleted"}) => ~VerifyIntegrity(tampered[1].lines).valid

\* C34: after a field the signature does not cover (details, severity,
\* user_id, session_id, request_id, or the signature set to null) was
\* altered in an event line, at any place of the segment, verify_integrity
\* on that segment returns valid = false.
C34_UnsignedChangeDetected ==
    AsLeft(UnsignedFields) => ~VerifyIntegrity(tampered[1].lines).valid

(***************************************************************************)
(* Properties of the router's provider registry                            *)
(***************************************************************************)
\* C35: along any sequence of initialize_provider, generate_dax, generate,
\* health_check and shutdown calls the primary is unset or a key of the
\* registry, a provider enters the registry only in the step in which its
\* own initialize returned true, and the registry loses entries only in a
\* shutdown, which leaves registry and primary empty.
C35_RegistryInvariant ==
    [][/\ primary_provider' = "none" \/ primary_provider' \in DOMAIN providers'
       /\ \A p \in DOMAIN providers' \ DOMAIN providers :
             InitializeProvider(p, TRUE)
       /\ (Shutdown \/ DOMAIN providers \ DOMAIN providers' # {})
             => /\ DOMAIN providers' = {}
                /\ primary_provider' = "none"]_vars

\* A provider was registered and named primary, a generate_dax call got
\* its response from it, and a shutdown emptied registry and primary.
C35_Witness ==
    /\ request_log # <<>>
    /\ DOMAIN providers = {}
    /\ primary_provider = "none"

\* C36: an initialize_provider call refused by the air-gap policy, naming
\* a kind the router does not know, or whose provider's initialize
\* returned false leaves registry and primary as they were; a successful
\* one adds or replaces the entry of its own kind only, and sets the
\* primary to that kind only when none was designated.
C36_InitializeProvider ==
    [][\A type \in ProviderTypes, ok \in BOOLEAN :
          InitializeProvider(type, ok) =>
             IF type # "ollama" \/ ~ok
             THEN /\ providers' = providers
                  /\ primary_provider' = primary_provider
             ELSE /\ DOMAIN providers' = DOMAIN providers \cup {type}
                  /\ \A p \in DOMAIN providers \ {type} :
                        providers'[p] = providers[p]
                  /\ primary_provider' =
                        IF primary_provider = "none" THEN type
                        ELSE primary_provider]_vars

\* Outside air-gap mode a call naming a kind the router does not know was
\* refused, the local provider being registered and another kind being
\* the primary.
C36_Witness ==
    /\ deployment_mode # "airgap"
    /\ initialized.type = "azure_foundry"
    /\ initialized.message = "Unknown provider type"
    /\ "ollama" \in DOMAIN providers
    /\ providers["ollama"] = "ready"
    /\ primary_provider = "azure_foundry"

\* C37: whatever max_retries >= 0 is configured, a generate call on a
\* Ready provider that ends in a timeout error has sent at least one HTTP
\* request.
C37_AttemptBeforeTimeout ==
    (call.pc = "done" /\ call.result = "LLMTimeoutError") => call.posts > 0

\* C38: in every adapter shutdown leaves the status Offline, never Ready,
\* and a generate call made while the client is closed ends in a
\* connection error without an HTTP request.
C38_OfflineAfterShutdown ==
    [][/\ ProviderShutdown => (status' = "offline" /\ ~client')
       /\ (ProviderGenerate /\ ~client)
             => /\ call'.pc = "done"
                /\ call'.result = "LLMConnectionError"
                /\ call'.posts = 0]_vars

====
